---------------------------- MODULE Spec2Model ----------------------------
(***************************************************************************)
(* Model of scripts/deepmind_earth_enhancer.py (class DeepMindEarthEnhancer)*)
(* : the preprocessing / training / persistence / prediction engine and the *)
(* enhancement composer built on it.                                        *)
(*                                                                          *)
(* Python strings on which the code does string surgery (feature and column *)
(* names, categorical values) are sequences of one-character strings, so    *)
(* that split, replace and startswith are computed as Python computes them. *)
(* Long names are abbreviated to the initials of their underscore-separated *)
(* words (network_type is n_t): the underscore structure, which is all the  *)
(* code looks at, is kept.                                                  *)
(***************************************************************************)
EXTENDS Integers, Sequences, FiniteSets, TLC

VARIABLES
    datasets,   \* self.datasets: dataset_type -> [features, target]
    models,     \* self.models: dataset_type -> bundle (a dict: DOMAIN = its keys)
    files,      \* ./models/*: path -> content (DOMAIN = the files that exist)
    runs,       \* number of training runs: train_model calls that have
                \* registered a bundle, pipelines run
    trained,    \* history: the bundles train_model has registered
    saved,      \* history: dataset_type -> the bundle the last save_model call
                \* wrote completely (absent when it did not)
    faults,     \* environment: number of artifact writes that have failed
    lastCall,   \* record of the last public call and of what it returned
    location_cache
                \* LocationServiceEnhancer.location_cache: id -> enhanced entity

vars == <<datasets, models, files, runs, trained, saved, faults, lastCall,
          location_cache>>

-----------------------------------------------------------------------------
(* Bounds *)

\* number of train_model calls that register a bundle
MaxRuns == 2

\* number of failing artifact writes explored
MaxFaults == 1

-----------------------------------------------------------------------------
(* Python strings as character sequences *)

US == "_"

\* the characters used, in code-point order (str comparison, sorted())
Alphabet == <<"3", "4", "5", "G", "_", "a", "b", "c", "d", "e", "i", "k",
              "l", "n", "o", "p", "r", "s", "t", "u", "w", "x">>

Rank(ch) == CHOOSE i \in 1..Len(Alphabet) : Alphabet[i] = ch

\* a < b on str
StrLess(a, b) ==
    \E i \in 1..Len(b) :
        /\ i <= Len(a) + 1
        /\ SubSeq(a, 1, i - 1) = SubSeq(b, 1, i - 1)
        /\ (i = Len(a) + 1 \/ Rank(a[i]) < Rank(b[i]))

\* "_" in s
HasUS(s) == \E i \in 1..Len(s) : s[i] = US

\* s.split("_")[0], for s that holds an underscore
SplitFirst(s) ==
    LET k == CHOOSE i \in 1..Len(s) :
                 s[i] = US /\ \A j \in 1..(i - 1) : s[j] # US
    IN  SubSeq(s, 1, k - 1)

\* s[i:].startswith(p)  (i is 1-based)
StartsWithAt(s, p, i) ==
    /\ i + Len(p) - 1 <= Len(s)
    /\ SubSeq(s, i, i + Len(p) - 1) = p

\* s.startswith(p)
StartsWith(s, p) == StartsWithAt(s, p, 1)

RECURSIVE ReplaceFrom(_, _, _)
ReplaceFrom(s, old, i) ==
    IF i > Len(s) THEN <<>>
    ELSE IF StartsWithAt(s, old, i) THEN ReplaceFrom(s, old, i + Len(old))
    ELSE <<s[i]>> \o ReplaceFrom(s, old, i + 1)

\* s.replace(old, ""), old non-empty: every non-overlapping occurrence,
\* scanning from the left
Replace(s, old) == ReplaceFrom(s, old, 1)

\* sorted(S) for a set of str
RECURSIVE SortStrs(_)
SortStrs(S) ==
    IF S = {} THEN <<>>
    ELSE LET m == CHOOSE x \in S : \A y \in S \ {x} : StrLess(x, y)
         IN  <<m>> \o SortStrs(S \ {m})

Range(f) == {f[i] : i \in DOMAIN f}

\* names used by the code and by the configurations explored
network_type       == <<"n", "_", "t">>
signal_strength    == <<"s", "_", "s">>
download_speed     == <<"d", "_", "s">>
latency            == <<"l">>
total_posts        == <<"t", "_", "p">>
total_likes        == <<"t", "_", "l">>
total_retweets     == <<"t", "_", "r">>
unique_users       == <<"u", "_", "u">>
reliability_score  == <<"r", "_", "s">>
avg_sentiment      == <<"a", "_", "s">>
total_interactions == <<"t", "_", "i">>
unknown            == <<"u", "n", "k", "n", "o", "w", "n">>
hour               == <<"h">>
ai_queries         == <<"a", "_", "q">>
voice_interactions == <<"v", "_", "i">>

-----------------------------------------------------------------------------
(* Python values.  The tag keeps the Python type; records of different      *)
(* types have different fields, so they are unequal, as in Python.          *)

PyStr(s)      == [ty |-> "str", s |-> s]
PyInt(n)      == [ty |-> "int", num |-> n, den |-> 1]
PyRat(n, d)   == [ty |-> "float", num |-> n, den |-> d]
PyFloat(n)    == PyRat(n, 1)
NpFloat(n)    == [ty |-> "numpy.float64", num |-> n, den |-> 1]
NaN           == [ty |-> "float", nan |-> TRUE]
PyNone        == [ty |-> "NoneType"]

IsStr(v)    == v.ty = "str"
IsNumber(v) == v.ty \in {"int", "float", "numpy.float64"}
IsNaN(v)    == v.ty = "float" /\ "nan" \in DOMAIN v

\* a == b in Python (numbers compare by value across int / float /
\* numpy.float64; NaN equals nothing; str equals only str)
PyEq(a, b) ==
    IF IsStr(a) /\ IsStr(b) THEN a.s = b.s
    ELSE IF IsNumber(a) /\ IsNumber(b)
         THEN ~IsNaN(a) /\ ~IsNaN(b) /\ a.num * b.den = b.num * a.den
    ELSE a.ty = b.ty /\ a.ty = "NoneType"

-----------------------------------------------------------------------------
(* Tables (pandas DataFrame): the ordered column names and the rows, each   *)
(* row a mapping column -> value.  Column names are unique.  Raw numeric    *)
(* cells are whole numbers or NaN; raw text cells are str or None.          *)

\* a mapping with the given keys (in order) and values
Row(cols, vals) ==
    [c \in Range(cols) |-> vals[CHOOSE i \in DOMAIN cols : cols[i] = c]]

\* a table with the given columns and rows of cell values
Table(cols, rowvals) ==
    [columns |-> cols,
     rows |-> [i \in DOMAIN rowvals |-> Row(cols, rowvals[i])]]

Columns(df) == Range(df.columns)

IsMissing(v) == v.ty = "NoneType" \/ IsNaN(v)

\* pd.api.types.is_numeric_dtype(df[col])
IsNumericDtype(df, col) == \A i \in 1..Len(df.rows) : IsNumber(df.rows[i][col])

\* the non-missing cells of a column, as the set of their row numbers
Present(df, col) == {i \in 1..Len(df.rows) : ~IsMissing(df.rows[i][col])}

RECURSIVE SumCells(_, _, _)
SumCells(df, col, I) ==
    IF I = {} THEN 0
    ELSE LET i == CHOOSE j \in I : TRUE
         IN  df.rows[i][col].num + SumCells(df, col, I \ {i})

\* df[col].mean(): NaN are skipped; the mean of no value is NaN
Mean(df, col) ==
    LET I == Present(df, col)
    IN  IF I = {} THEN NaN ELSE PyRat(SumCells(df, col, I), Cardinality(I))

\* df[col].mode()[0] if not df[col].mode().empty else "unknown": the most
\* frequent non-missing value, the smallest of them on a tie
ModeOrUnknown(df, col) ==
    LET I      == Present(df, col)
        vals   == {df.rows[i][col].s : i \in I}
        cnt(v) == Cardinality({i \in I : df.rows[i][col].s = v})
        best   == {v \in vals : \A w \in vals : cnt(w) <= cnt(v)}
    IN  IF I = {} THEN PyStr(unknown) ELSE PyStr(SortStrs(best)[1])

\* df[col] = df[col].fillna(value)
FillNa(df, col, value) ==
    [df EXCEPT !.rows =
        [i \in 1..Len(df.rows) |->
            [df.rows[i] EXCEPT ![col] = IF IsMissing(@) THEN value ELSE @]]]

\* lines 412-417: the imputation loop over features + [target]
RECURSIVE Impute(_, _, _)
Impute(df, cols, k) ==
    IF k > Len(cols) THEN df
    ELSE LET col == cols[k]
             nxt == IF col \notin Columns(df) THEN df
                    ELSE IF IsNumericDtype(df, col)
                         THEN FillNa(df, col, Mean(df, col))
                         ELSE FillNa(df, col, ModeOrUnknown(df, col))
         IN  Impute(nxt, cols, k + 1)

\* the name pandas gives the indicator column of value v of column col
DummyName(col, v) == col \o <<US>> \o v

\* pd.get_dummies(df, columns=[col], prefix=[col], dummy_na=False): the
\* column is dropped and one indicator column per distinct value, in sorted
\* order of the values, is appended after the remaining columns
GetDummies(df, col) ==
    LET cats  == SortStrs({df.rows[i][col].s : i \in Present(df, col)})
        kept  == SelectSeq(df.columns, LAMBDA c : c # col)
        added == [j \in 1..Len(cats) |-> DummyName(col, cats[j])]
        ncols == kept \o added
    IN  [columns |-> ncols,
         rows |-> [i \in 1..Len(df.rows) |->
            [c \in Range(ncols) |->
                IF c \in Range(kept) THEN df.rows[i][c]
                ELSE PyInt(IF DummyName(col, df.rows[i][col].s) = c
                           THEN 1 ELSE 0)]]]

\* lines 419-423: one-hot expansion of every object-typed feature column
RECURSIVE ExpandCategoricals(_, _, _, _)
ExpandCategoricals(df, features, k, categorical) ==
    IF k > Len(features) THEN [df |-> df, categorical_features |-> categorical]
    ELSE LET col == features[k]
         IN  IF col \in Columns(df) /\ ~IsNumericDtype(df, col)
             THEN ExpandCategoricals(GetDummies(df, col), features, k + 1,
                                     categorical \cup {col})
             ELSE ExpandCategoricals(df, features, k + 1, categorical)

\* lines 425-430: the expanded feature list
RECURSIVE NewFeatures(_, _, _, _)
NewFeatures(df, features, categorical, k) ==
    IF k > Len(features) THEN <<>>
    ELSE LET feature == features[k]
             here == IF feature \in categorical
                     THEN SelectSeq(df.columns,
                              LAMBDA c : StartsWith(c, feature \o <<US>>))
                     ELSE IF feature \in Columns(df) THEN <<feature>>
                     ELSE <<>>
         IN  here \o NewFeatures(df, features, categorical, k + 1)

\* preprocess_data(df, dataset_type) -> (df, new_features)
preprocess_data(df, cfg) ==
    LET filled == Impute(df, cfg.features \o <<cfg.target>>, 1)
        ex     == ExpandCategoricals(filled, cfg.features, 1, {})
    IN  [df |-> ex.df,
         new_features |-> NewFeatures(ex.df, cfg.features,
                                      ex.categorical_features, 1)]

-----------------------------------------------------------------------------
(* Trainer.  The split and the estimators are seeded (random_state=42), so  *)
(* a fitted estimator is determined by the data it was fitted on; data      *)
(* names that training table.  It remembers the number of columns it was    *)
(* fitted on, which scikit-learn checks on every later transform / predict. *)

\* a trainer that takes only the reliability score for a bounded score
IsRegressionTargetScoreOnly(target) == target = reliability_score

\* line 460
IsRegressionTarget(target) == target \in {avg_sentiment, reliability_score}

StandardScaler(data, n) ==
    [ty |-> "StandardScaler", fit_on |-> data, n_features |-> n]

Estimator(target, data, n) ==
    [ty |-> IF IsRegressionTarget(target) THEN "GradientBoostingRegressor"
            ELSE "RandomForestClassifier",
     fit_on |-> data, n_features |-> n]

\* hasattr(model, "predict_proba")
HasPredictProba(model) == model.ty = "RandomForestClassifier"

\* lines 460-482: model_info; the metric values are those measured on the
\* held-out part of the data
ModelInfo(target, data) ==
    IF IsRegressionTarget(target)
    THEN [type |-> PyStr(<<"regression">>),
          metrics |-> [mse |-> PyFloat(data), r2 |-> PyFloat(data)]]
    ELSE [type |-> PyStr(<<"classification">>),
          metrics |-> [accuracy |-> PyFloat(data), f1 |-> PyFloat(data)]]

\* dict(zip(new_features, model.feature_importances_)): a later duplicate of
\* a name replaces the earlier one; the weights are numpy.float64
FeatureImportance(new_features) ==
    [f \in Range(new_features) |->
        NpFloat(CHOOSE i \in DOMAIN new_features :
                    /\ new_features[i] = f
                    /\ \A j \in DOMAIN new_features :
                           new_features[j] = f => j <= i)]

\* d[key] = value on a dict
DictSet(d, key, value) ==
    [k \in DOMAIN d \cup {key} |-> IF k = key THEN value ELSE d[k]]

\* {k: v for k, v in d.items() if k != key}
DictWithout(d, key) == [k \in DOMAIN d \ {key} |-> d[k]]

\* lines 484-492: the bundle train_model registers
NewBundle(target, new_features, data) ==
    LET n    == Len(new_features)
        base == ModelInfo(target, data)
        info == [type |-> base.type, metrics |-> base.metrics,
                 feature_importance |-> FeatureImportance(new_features),
                 scaler |-> StandardScaler(data, n)]
    IN  [model |-> Estimator(target, data, n),
         features |-> new_features,
         info |-> info]

\* a trainer whose error paths drop the bundle registered before
train_model_unregistering(reg, cfg, t, df, new_features, data, fit) ==
    IF new_features = <<>>
    THEN [models |-> DictWithout(reg, t), outcome |-> "return",
          ret |-> [error |-> PyStr(<<"No features available for training.">>)]]
    ELSE IF cfg.target \notin Columns(df)
    THEN [models |-> DictWithout(reg, t), outcome |-> "return",
          ret |-> [error |-> PyStr(<<"Target column '">> \o cfg.target
                                  \o <<"' not found.">>)]]
    ELSE IF fit = "raise"
    THEN [models |-> reg, outcome |-> "raise", ret |-> [exception |-> PyStr(<<"ValueError">>)]]
    ELSE [models |-> DictSet(reg, t, NewBundle(cfg.target, new_features, data)),
          outcome |-> "return",
          ret |-> NewBundle(cfg.target, new_features, data).info]

\* a trainer that keeps the feature list of the bundle registered before
train_model_keeping_features(reg, cfg, t, df, new_features, data, fit) ==
    IF new_features = <<>>
    THEN [models |-> reg, outcome |-> "return",
          ret |-> [error |-> PyStr(<<"No features available for training.">>)]]
    ELSE IF cfg.target \notin Columns(df)
    THEN [models |-> reg, outcome |-> "return",
          ret |-> [error |-> PyStr(<<"Target column '">> \o cfg.target
                                  \o <<"' not found.">>)]]
    ELSE IF fit = "raise"
    THEN [models |-> reg, outcome |-> "raise", ret |-> [exception |-> PyStr(<<"ValueError">>)]]
    ELSE [models |-> DictSet(reg, t,
                        [NewBundle(cfg.target, new_features, data) EXCEPT
                            !.features = IF t \in DOMAIN reg THEN reg[t].features
                                         ELSE new_features]),
          outcome |-> "return",
          ret |-> NewBundle(cfg.target, new_features, data).info]

\* train_model(df, dataset_type, new_features).  fit is the outcome of the
\* scikit-learn calls (split, fit, score), which validate their data and may
\* raise; train_model does not catch.
train_model(reg, cfg, t, df, new_features, data, fit) ==
    IF new_features = <<>>
    THEN [models |-> reg, outcome |-> "return",
          ret |-> [error |-> PyStr(<<"No features available for training.">>)]]
    ELSE IF cfg.target \notin Columns(df)
    THEN [models |-> reg, outcome |-> "return",
          ret |-> [error |-> PyStr(<<"Target column '">> \o cfg.target
                                  \o <<"' not found.">>)]]
    ELSE IF fit = "raise"
    THEN [models |-> reg, outcome |-> "raise", ret |-> [exception |-> PyStr(<<"ValueError">>)]]
    ELSE LET b == NewBundle(cfg.target, new_features, data)
         IN  [models |-> DictSet(reg, t, b), outcome |-> "return",
              ret |-> b.info]

-----------------------------------------------------------------------------
(* Model registry persistence: ./models/<type>_model.joblib,                *)
(* <type>_scaler.joblib and <type>_metadata.json                            *)

ModelPath(t)    == <<t, "model.joblib">>
ScalerPath(t)   == <<t, "scaler.joblib">>
MetadataPath(t) == <<t, "metadata.json">>
ArtifactPaths(t) == {ModelPath(t), ScalerPath(t), MetadataPath(t)}

\* what a write that failed part-way leaves behind
Corrupt == [fmt |-> "corrupt"]

\* joblib.dump(obj, path) / joblib.load(path): pickle keeps the object
JoblibDump(obj)   == [fmt |-> "joblib", obj |-> obj]
JoblibLoad(cont)  == cont.obj

\* json.dump(..., default=str) on a scalar: float and its subclass
\* numpy.float64 are written as numbers, str as strings, anything json does
\* not know through str()
JsonDumpLeaf(v) ==
    IF v.ty \in {"float", "numpy.float64"} THEN [j |-> "real", num |-> v.num, den |-> v.den]
    ELSE IF v.ty = "int" THEN [j |-> "integer", num |-> v.num]
    ELSE IF v.ty = "str" THEN [j |-> "string", s |-> v.s]
    ELSE IF v.ty = "NoneType" THEN [j |-> "null"]
    ELSE [j |-> "string", s |-> v.ty]

\* json.load on a scalar
JsonLoadLeaf(x) ==
    IF x.j = "real" THEN PyRat(x.num, x.den)
    ELSE IF x.j = "integer" THEN PyInt(x.num)
    ELSE IF x.j = "string" THEN PyStr(x.s)
    ELSE PyNone

JsonDumpDict(d) == [k \in DOMAIN d |-> JsonDumpLeaf(d[k])]
JsonLoadDict(o) == [k \in DOMAIN o |-> JsonLoadLeaf(o[k])]

NestedInfoKeys == {"metrics", "feature_importance"}

\* mutant: the feature list is written in another order than it is stored
MetadataDocumentReordered(model_data) ==
    LET serializable_info == DictWithout(model_data.info, "scaler")
        n == Len(model_data.features)
    IN  [fmt |-> "json",
         features |-> [i \in DOMAIN model_data.features |->
                          JsonDumpLeaf(PyStr(model_data.features[n + 1 - i]))],
         info |-> [k \in DOMAIN serializable_info |->
                      IF k \in NestedInfoKeys
                      THEN JsonDumpDict(serializable_info[k])
                      ELSE JsonDumpLeaf(serializable_info[k])]]

\* lines 508-517: the metadata document
MetadataDocument(model_data) ==
    LET serializable_info == DictWithout(model_data.info, "scaler")
    IN  [fmt |-> "json",
         features |-> [i \in DOMAIN model_data.features |->
                          JsonDumpLeaf(PyStr(model_data.features[i]))],
         info |-> [k \in DOMAIN serializable_info |->
                      IF k \in NestedInfoKeys
                      THEN JsonDumpDict(serializable_info[k])
                      ELSE JsonDumpLeaf(serializable_info[k])]]

\* json.load(f) of the metadata document, as {"features": ..., "info": ...}
MetadataLoad(cont) ==
    [features |-> [i \in DOMAIN cont.features |-> JsonLoadLeaf(cont.features[i]).s],
     info |-> [k \in DOMAIN cont.info |->
                  IF k \in NestedInfoKeys THEN JsonLoadDict(cont.info[k])
                  ELSE JsonLoadLeaf(cont.info[k])]]

\* one write of save_model: step is its position (1 model, 2 scaler,
\* 3 metadata), failAt the write that raises (0: none), partial whether the
\* failing write leaves a truncated file or leaves the path untouched
WriteStep(fs, path, content, step, failAt, partial) ==
    IF failAt = 0 \/ step < failAt THEN DictSet(fs, path, content)
    ELSE IF step = failAt /\ partial THEN DictSet(fs, path, Corrupt)
    ELSE fs

\* a save that reports True once the model artifact is written
save_model_first_write(reg, fs, t, failAt, partial) ==
    IF t \notin DOMAIN reg THEN [files |-> fs, ret |-> FALSE]
    ELSE [files |->
            WriteStep(
              WriteStep(
                WriteStep(fs, ModelPath(t), JoblibDump(reg[t].model),
                          1, failAt, partial),
                ScalerPath(t), JoblibDump(reg[t].info.scaler), 2, failAt, partial),
              MetadataPath(t), MetadataDocument(reg[t]), 3, failAt, partial),
          ret |-> (failAt # 1)]

\* save_model(dataset_type)
save_model(reg, fs, t, failAt, partial) ==
    IF t \notin DOMAIN reg THEN [files |-> fs, ret |-> FALSE]
    ELSE LET model_data == reg[t]
             w1 == WriteStep(fs, ModelPath(t), JoblibDump(model_data.model),
                             1, failAt, partial)
             w2 == WriteStep(w1, ScalerPath(t),
                             JoblibDump(model_data.info.scaler),
                             2, failAt, partial)
             w3 == WriteStep(w2, MetadataPath(t), MetadataDocument(model_data),
                             3, failAt, partial)
         IN  [files |-> w3, ret |-> (failAt = 0)]

\* all(os.path.exists(path) for path in [model_path, scaler_path, metadata_path])
AllArtifactsExist(fs, t) == \A p \in ArtifactPaths(t) : p \in DOMAIN fs

\* joblib.load / json.load raise on a truncated file
AllArtifactsReadable(fs, t) == \A p \in ArtifactPaths(t) : fs[p] # Corrupt

\* line 542: the bundle load_model builds
LoadedBundle(fs, t) ==
    LET model    == JoblibLoad(fs[ModelPath(t)])
        scaler   == JoblibLoad(fs[ScalerPath(t)])
        metadata == MetadataLoad(fs[MetadataPath(t)])
    IN  [model |-> model,
         features |-> metadata.features,
         info |-> DictSet(metadata.info, "scaler", scaler)]

\* mutant: the registry entry is assigned as soon as the model file is read,
\* before the other two artifacts are looked at
load_model_eager(reg, fs, t) ==
    IF ModelPath(t) \in DOMAIN fs /\ fs[ModelPath(t)] # Corrupt
          /\ ~(AllArtifactsExist(fs, t) /\ AllArtifactsReadable(fs, t))
    THEN [models |-> DictSet(reg, t, [model |-> JoblibLoad(fs[ModelPath(t)])]),
          ret |-> FALSE]
    ELSE IF ~AllArtifactsExist(fs, t) THEN [models |-> reg, ret |-> FALSE]
    ELSE IF ~AllArtifactsReadable(fs, t) THEN [models |-> reg, ret |-> FALSE]
    ELSE [models |-> DictSet(reg, t, LoadedBundle(fs, t)), ret |-> TRUE]

\* load_model(dataset_type)
load_model(reg, fs, t) ==
    IF ~AllArtifactsExist(fs, t) THEN [models |-> reg, ret |-> FALSE]
    ELSE IF ~AllArtifactsReadable(fs, t) THEN [models |-> reg, ret |-> FALSE]
    ELSE [models |-> DictSet(reg, t, LoadedBundle(fs, t)), ret |-> TRUE]

-----------------------------------------------------------------------------
(* Predictor *)

\* lines 564-570: the cell reconstructed for one stored feature name
ReconstructCell(feature, input_data) ==
    LET base_feature_name ==
            IF HasUS(feature) THEN PyStr(SplitFirst(feature)) ELSE PyNone
        truthy == base_feature_name # PyNone /\ base_feature_name.s # <<>>
    IN  IF truthy /\ base_feature_name.s \in DOMAIN input_data
        THEN IF PyEq(input_data[base_feature_name.s],
                     PyStr(Replace(feature, base_feature_name.s \o <<US>>)))
             THEN PyInt(1) ELSE PyInt(0)
        ELSE IF feature \in DOMAIN input_data THEN input_data[feature]
        ELSE PyInt(0)

\* lines 562-574: the one-row frame, columns in the stored feature order
Reconstruct(features, input_data) ==
    [i \in DOMAIN features |-> ReconstructCell(features[i], input_data)]

\* scaler.transform(input_df): raises on a cell that is not a number and on
\* a column count other than the one the scaler was fitted on
ScalerAccepts(scaler, row) ==
    /\ Len(row) = scaler.n_features
    /\ \A i \in DOMAIN row : IsNumber(row[i]) /\ ~IsNaN(row[i])

\* model.predict(input_scaled): raises on a column count other than the one
\* the model was fitted on
ModelAccepts(model, row) == Len(row) = model.n_features

\* model.predict(scaler.transform(row))[0]: determined by the fitted model,
\* the fitted scaler and the row
Inference(model, scaler, row) ==
    [ty |-> "float", model |-> model.fit_on, scaler |-> scaler.fit_on, row |-> row]

\* float(model.predict_proba(input_scaled)[0].max())
Confidence(model, scaler, row) ==
    IF HasPredictProba(model)
    THEN [ty |-> "float", proba_of |-> Inference(model, scaler, row)]
    ELSE PyNone

\* lines 557-586: the body of the try block of predict on a registered
\* bundle; outcome "raise" is an exception leaving the body
TryPredict(model_data, input_data) ==
    LET model  == model_data.model
        scaler == model_data.info.scaler
        row    == Reconstruct(model_data.features, input_data)
    IN  IF ~ScalerAccepts(scaler, row)
        THEN [outcome |-> "raise", scaled |-> FALSE,
              ret |-> [exception |-> PyStr(<<"ValueError: scaler.transform">>)]]
        ELSE IF ~ModelAccepts(model, row)
        THEN [outcome |-> "raise", scaled |-> TRUE,
              ret |-> [exception |-> PyStr(<<"ValueError: model.predict">>)]]
        ELSE [outcome |-> "return", scaled |-> TRUE,
              ret |-> [prediction |-> Inference(model, scaler, row),
                       confidence |-> Confidence(model, scaler, row)]]

\* mutant: no except clause around the body
ExceptMissing(r) == r

\* lines 587-589: except Exception as e: return {"error": str(e)}
ExceptToError(r) ==
    IF r.outcome = "raise"
    THEN [r EXCEPT !.outcome = "return", !.ret = [error |-> r.ret.exception]]
    ELSE r

\* mutant: the result of load_model is not looked at, and the try block runs
\* on a registry without the entry
predict_load_unchecked(reg, fs, t, input_data) ==
    LET registered == t \in DOMAIN reg
        ld   == load_model(reg, fs, t)
        reg2 == IF registered THEN reg ELSE ld.models
        nld  == IF registered THEN 0 ELSE 1
    IN  IF t \notin DOMAIN reg2
        THEN [models |-> reg2, loads |-> nld, tried |-> TRUE, scaled |-> FALSE,
              outcome |-> "return", ret |-> [error |-> PyStr(<<"KeyError: ", t>>)]]
        ELSE LET r == ExceptToError(TryPredict(reg2[t], input_data))
             IN  [models |-> reg2, loads |-> nld, tried |-> TRUE,
                  scaled |-> r.scaled, outcome |-> r.outcome, ret |-> r.ret]

\* predict(dataset_type, input_data): the registry after the call, what the
\* call did (load attempts, whether the try block was entered, whether a row
\* was scaled) and its result
predict(reg, fs, t, input_data) ==
    LET registered == t \in DOMAIN reg
        ld   == load_model(reg, fs, t)
        reg2 == IF registered THEN reg ELSE ld.models
        nld  == IF registered THEN 0 ELSE 1
    IN  IF ~registered /\ ~ld.ret
        THEN [models |-> reg2, loads |-> nld, tried |-> FALSE, scaled |-> FALSE,
              outcome |-> "return",
              ret |-> [error |-> PyStr(<<"No model available for ", t>>)]]
        ELSE LET r == ExceptToError(TryPredict(reg2[t], input_data))
             IN  [models |-> reg2, loads |-> nld, tried |-> TRUE,
                  scaled |-> r.scaled, outcome |-> r.outcome, ret |-> r.ret]

-----------------------------------------------------------------------------
(* Enhancement composer.  An entity is a dict; its connectivity and social  *)
(* sections are dicts of their own, which the shallow copy of line 593      *)
(* shares between the argument and the returned entity.                     *)

PyBool(b) == [ty |-> "bool", b |-> b]
PyDict(d) == [ty |-> "dict", d |-> d]
IsDict(v) == v.ty = "dict"

\* d.get(key, default) on the content of a dict
DictGet(d, key, default) == IF key \in DOMAIN d THEN d[key] ELSE default

\* {k: v for k, v in d.items() if v is not None}
FilterNone(d) == [k \in {j \in DOMAIN d : d[j] # PyNone} |-> d[k]]

\* s * n for a str s
RECURSIVE Repeat(_, _)
Repeat(s, n) == IF n <= 0 THEN <<>> ELSE s \o Repeat(s, n - 1)

\* v * (n/d), the literal being a float when isFloat: defined on numbers,
\* and on a str times an int; anything else is a TypeError
CanMul(v, isFloat) == IsNumber(v) \/ (IsStr(v) /\ ~isFloat)

Mul(v, n, d, isFloat) ==
    IF IsStr(v) THEN PyStr(Repeat(v.s, n))
    ELSE IF IsNaN(v) THEN NaN
    ELSE [ty  |-> IF v.ty = "int" /\ ~isFloat THEN "int"
                  ELSE IF v.ty = "numpy.float64" THEN "numpy.float64"
                  ELSE "float",
          num |-> v.num * n,
          den |-> v.den * d]

\* lines 596-601: network_input
NetworkInput(section) ==
    Row(<<network_type, signal_strength, download_speed, latency>>,
        <<DictGet(section, "networkType", PyNone),
          DictGet(section, "signalStrength", PyNone),
          DictGet(section, "bandwidth", PyNone),
          DictGet(section, "latency", PyNone)>>)

\* lines 616-621: the products of social_input are defined
SocialInputDefined(section) ==
    LET volume == DictGet(section, "volume", PyInt(0))
    IN  CanMul(volume, FALSE) /\ CanMul(volume, TRUE)

\* lines 616-621: social_input
SocialInput(section) ==
    LET volume == DictGet(section, "volume", PyInt(0))
    IN  Row(<<total_posts, total_likes, total_retweets, unique_users>>,
            <<DictGet(section, "volume", PyNone),
              Mul(volume, 5, 1, FALSE),
              Mul(volume, 3, 10, TRUE),
              Mul(volume, 7, 10, TRUE)>>)

\* the section of the entity a sub-domain reads and writes
SectionKey(t) == IF t = "network" THEN "connectivity" ELSE "social"

\* the field the sub-domain's prediction is stored in
PredictionField(t) ==
    IF t = "network" THEN "reliability_score" ELSE "enhanced_sentiment"

\* all(feat in filtered for feat in features), lines 606 and 624
AllRequiredPresent(features, filtered) ==
    \A i \in DOMAIN features : features[i] \in DOMAIN filtered

\* mutant: the section is rebuilt from the prediction alone
AttachReplacing(section, t, prediction) ==
    (PredictionField(t) :> prediction.prediction)
        @@ ("prediction_confidence" :> prediction.confidence)

\* lines 610-611 and 628-629: the two stores into the section
Attach(section, t, prediction) ==
    DictSet(DictSet(section, PredictionField(t), prediction.prediction),
            "prediction_confidence", prediction.confidence)

\* lines 595 and 615: the sub-domain's block is entered
BlockEntered(ds, location_data, t) ==
    SectionKey(t) \in DOMAIN location_data /\ t \in DOMAIN ds

\* a block that invoked no predict: whether it raised, the registry after
\* it, and the section value as it leaves it
Quiet(exception, reg, value) ==
    [raised |-> exception # "none", exception |-> exception, models |-> reg,
     called |-> FALSE, attached |-> FALSE, value |-> value]

\* lines 608-611 and 626-629: the block after predict returned p
AfterPredict(value, t, p) ==
    [raised    |-> FALSE,
     exception |-> "none",
     models    |-> p.models,
     called    |-> TRUE,
     attached  |-> "error" \notin DOMAIN p.ret,
     value     |-> IF "error" \notin DOMAIN p.ret
                   THEN PyDict(Attach(value.d, t, p.ret))
                   ELSE value]

\* lines 605-613 and 623-631: the check of the required features, and
\* predict when it passes
CheckedPredict(ds, reg, fs, t, value, filtered) ==
    IF AllRequiredPresent(ds[t].features, filtered)
    THEN AfterPredict(value, t, predict(reg, fs, t, filtered))
    ELSE Quiet("none", reg, value)

\* lines 596-613 and 616-631: one sub-domain's block on the section value
\* it finds
SubDomain(ds, reg, fs, t, value) ==
    IF ~IsDict(value)
    THEN Quiet("AttributeError", reg, value)
    ELSE IF t = "social" /\ ~SocialInputDefined(value.d)
    THEN Quiet("TypeError", reg, value)
    ELSE CheckedPredict(ds, reg, fs, t, value,
            FilterNone(IF t = "network" THEN NetworkInput(value.d)
                       ELSE SocialInput(value.d)))

\* lines 595-613 and 615-631: the sub-domain's block, entered or not
Block(ds, reg, fs, location_data, t) ==
    IF BlockEntered(ds, location_data, t)
    THEN SubDomain(ds, reg, fs, t, location_data[SectionKey(t)])
    ELSE Quiet("none", reg, PyNone)

\* lines 633-634
Stamp(enhanced_data, now) ==
    DictSet(DictSet(enhanced_data, "enhanced_by_deepmind", PyBool(TRUE)),
            "enhancement_timestamp", PyStr(<<now>>))

\* the argument as the two blocks leave it: the sections are shared with the
\* copy of line 593, so the stores of lines 610-611 and 628-629 show in it
SharedSections(location_data, net, soc) ==
    [k \in DOMAIN location_data |->
        IF k = "connectivity" /\ net.attached THEN net.value
        ELSE IF k = "social" /\ soc.attached THEN soc.value
        ELSE location_data[k]]

\* what the call amounts to after its two blocks: the registry after the
\* call, its outcome, the returned entity, the argument as the call leaves
\* it, the sub-domains predict was invoked for and those whose prediction
\* was attached
Composed(location_data, now, net, soc) ==
    [models   |-> soc.models,
     outcome  |-> IF net.raised \/ soc.raised THEN "raise" ELSE "return",
     ret      |-> IF net.raised THEN [exception |-> PyStr(<<net.exception>>)]
                  ELSE IF soc.raised THEN [exception |-> PyStr(<<soc.exception>>)]
                  ELSE Stamp(SharedSections(location_data, net, soc), now),
     arg      |-> SharedSections(location_data, net, soc),
     calls    |-> {t \in {"network"} : net.called}
                      \cup {t \in {"social"} : soc.called},
     attached |-> {t \in {"network"} : net.attached}
                      \cup {t \in {"social"} : soc.attached}]

\* lines 615-635, entered with the outcome net of the network block
AfterNetwork(ds, fs, location_data, now, net) ==
    Composed(location_data, now, net,
             IF net.raised THEN Quiet("none", net.models, PyNone)
             ELSE Block(ds, net.models, fs, location_data, "social"))

\* enhance_location_data(location_data) at clock reading now
enhance_location_data(ds, reg, fs, location_data, now) ==
    AfterNetwork(ds, fs, location_data, now,
                 Block(ds, reg, fs, location_data, "network"))

-----------------------------------------------------------------------------
(* Chunk synthesizer.  A chunk is the text of one f-string; it is kept as   *)
(* the section it describes and the values interpolated into it.            *)

PyList(l) == [ty |-> "list", l |-> l]
IsList(v) == v.ty = "list"

\* bool(v) for the values a record holds
Truthy(v) ==
    IF IsDict(v) THEN DOMAIN v.d # {}
    ELSE IF IsList(v) THEN v.l # <<>>
    ELSE IF IsStr(v) THEN v.s # <<>>
    ELSE IF IsNumber(v) THEN IsNaN(v) \/ v.num # 0
    ELSE v.ty = "bool" /\ v.b

NA == PyStr(<<"N", "/", "A">>)

\* s.strip("()")
RECURSIVE StripParens(_)
StripParens(s) ==
    IF s = <<>> THEN s
    ELSE IF Head(s) \in {"(", ")"} THEN StripParens(Tail(s))
    ELSE IF s[Len(s)] \in {"(", ")"} THEN StripParens(SubSeq(s, 1, Len(s) - 1))
    ELSE s

\* s.split(','): the list of the parts between the commas
RECURSIVE SplitComma(_, _)
SplitComma(s, part) ==
    IF s = <<>> THEN <<part>>
    ELSE IF Head(s) = "," THEN <<part>> \o SplitComma(Tail(s), <<>>)
    ELSE SplitComma(Tail(s), Append(part, Head(s)))

Digits == <<"0", "1", "2", "3", "4", "5", "6", "7", "8", "9">>

\* s without leading and trailing blanks, as float() reads it
RECURSIVE Trim(_)
Trim(s) ==
    IF s = <<>> THEN s
    ELSE IF Head(s) = " " THEN Trim(Tail(s))
    ELSE IF s[Len(s)] = " " THEN Trim(SubSeq(s, 1, Len(s) - 1))
    ELSE s

\* float(s) is defined: an unsigned decimal numeral, blanks around it
FloatParses(s) ==
    /\ Trim(s) # <<>>
    /\ \A i \in DOMAIN Trim(s) : Trim(s)[i] \in Range(Digits)

RECURSIVE NumeralValue(_)
NumeralValue(s) ==
    IF s = <<>> THEN 0
    ELSE 10 * NumeralValue(SubSeq(s, 1, Len(s) - 1))
            + (CHOOSE d \in 0..9 : Digits[d + 1] = s[Len(s)])

\* float(s)
ParseFloat(s) == PyFloat(NumeralValue(Trim(s)))

\* lines 116-128: (longitude, latitude).  A textual form that does not split
\* in two, or whose first part is no number, leaves both N/A; one whose
\* second part is no number has already assigned the longitude.
Coordinates(coords_raw) ==
    IF IsDict(coords_raw)
    THEN <<DictGet(coords_raw.d, "x", NA), DictGet(coords_raw.d, "y", NA)>>
    ELSE IF IsStr(coords_raw)
    THEN LET parts == SplitComma(StripParens(coords_raw.s), <<>>)
         IN  IF Len(parts) # 2 \/ ~FloatParses(parts[1]) THEN <<NA, NA>>
             ELSE IF ~FloatParses(parts[2]) THEN <<ParseFloat(parts[1]), NA>>
             ELSE <<ParseFloat(parts[1]), ParseFloat(parts[2])>>
    ELSE <<NA, NA>>

\* lines 134-139: the identity / coordinates / interaction chunk
IdentityChunk(record) ==
    [section             |-> "identity",
     location_name       |-> DictGet(record, "location_name",
                                     PyStr(<<"Unknown Location">>)),
     location_id         |-> DictGet(record, "location_id", NA),
     db_id               |-> DictGet(record, "id", NA),
     longitude           |-> Coordinates(DictGet(record, "coordinates", PyNone))[1],
     latitude            |-> Coordinates(DictGet(record, "coordinates", PyNone))[2],
     last_interaction    |-> DictGet(record, "last_interaction", NA),
     total_interactions  |-> DictGet(record, "total_interactions", PyInt(0)),
     blockchain_address  |-> DictGet(record, "blockchain_address", NA)]

\* the outcome of a stretch of the function: an exception, or the chunks it
\* appended
Raised(exception) == [raised |-> TRUE, exception |-> exception, chunks |-> <<>>]
Appended(chunks)  == [raised |-> FALSE, exception |-> "none", chunks |-> chunks]

\* one stretch after another: an exception of the first skips the second
Then(a, b) ==
    IF a.raised THEN a
    ELSE IF b.raised THEN b
    ELSE Appended(a.chunks \o b.chunks)

\* f"{v*100:.0f}%" (defined on numbers only)
Percent(v) == [fmt |-> ".0f%", of |-> Mul(v, 100, 1, FALSE)]

\* k.replace('_', ' ')
SpacedName(k) == [i \in DOMAIN k |-> IF k[i] = US THEN " " ELSE k[i]]

\* lines 143-146
TraitsChunk(name, traits) ==
    IF ~Truthy(traits) THEN Appended(<<>>)
    ELSE IF ~IsDict(traits) THEN Raised("AttributeError")
    ELSE IF \E k \in DOMAIN traits.d : ~IsNumber(traits.d[k])
    THEN Raised("TypeError")
    ELSE Appended(<<[section |-> "traits", location_name |-> name,
                     traits |-> {<<SpacedName(k), Percent(traits.d[k])>> :
                                    k \in DOMAIN traits.d}]>>)

\* lines 148-150
VoiceCharacteristicsChunk(voice_char) ==
    IF ~Truthy(voice_char) THEN Appended(<<>>)
    ELSE IF ~IsDict(voice_char) THEN Raised("AttributeError")
    ELSE Appended(<<[section |-> "voice characteristics",
                     tone |-> DictGet(voice_char.d, "tone", NA),
                     pace |-> DictGet(voice_char.d, "pace", NA)]>>)

\* ", ".join(languages) is defined: a list (or str) of str
Joinable(languages) ==
    \/ IsStr(languages)
    \/ IsList(languages) /\ \A i \in DOMAIN languages.l : IsStr(languages.l[i])

\* lines 152-155
CulturalChunk(name, cultural) ==
    IF ~Truthy(cultural) THEN Appended(<<>>)
    ELSE IF ~IsDict(cultural) THEN Raised("AttributeError")
    ELSE IF ~Joinable(DictGet(cultural.d, "languages", PyList(<<>>)))
    THEN Raised("TypeError")
    ELSE Appended(<<[section |-> "cultural influences", location_name |-> name,
                     primaryCulture |-> DictGet(cultural.d, "primaryCulture", NA),
                     languages |->
                        IF Truthy(DictGet(cultural.d, "languages", PyList(<<>>)))
                        THEN DictGet(cultural.d, "languages", PyList(<<>>))
                        ELSE NA]>>)

\* lines 141-155
PersonalityChunks(name, personality_data) ==
    IF ~(Truthy(personality_data) /\ IsDict(personality_data))
    THEN Appended(<<>>)
    ELSE Then(TraitsChunk(name, DictGet(personality_data.d, "traits",
                                        PyDict(<<>>))),
         Then(VoiceCharacteristicsChunk(
                  DictGet(personality_data.d, "voiceCharacteristics",
                          PyDict(<<>>))),
              CulturalChunk(name, DictGet(personality_data.d,
                                          "culturalInfluence", PyDict(<<>>)))))

\* lines 157-163
VoiceProfileChunk(name, voice_profile) ==
    IF ~(Truthy(voice_profile) /\ IsDict(voice_profile)) THEN Appended(<<>>)
    ELSE IF \/ ~IsNumber(DictGet(voice_profile.d, "stability", PyInt(0)))
            \/ ~IsNumber(DictGet(voice_profile.d, "similarityBoost", PyInt(0)))
    THEN Raised("TypeError")
    ELSE Appended(<<[section |-> "voice profile", location_name |-> name,
                     voiceId |-> DictGet(voice_profile.d, "voiceId", NA),
                     stability |->
                        Percent(DictGet(voice_profile.d, "stability", PyInt(0))),
                     similarityBoost |->
                        Percent(DictGet(voice_profile.d, "similarityBoost",
                                        PyInt(0)))]>>)

\* process_location_memory_to_chunks(record): the list returned, or the
\* exception that leaves the call
process_location_memory_to_chunks(record) ==
    Then(Appended(<<IdentityChunk(record)>>),
    Then(PersonalityChunks(IdentityChunk(record).location_name,
                           DictGet(record, "personality_data", PyNone)),
         VoiceProfileChunk(IdentityChunk(record).location_name,
                           DictGet(record, "voice_profile", PyNone))))

-----------------------------------------------------------------------------
(* Embedding pipeline *)

\* line 180
batch_size == 100

\* line 174
embedding_model == PyStr(<<"models/embedding-001">>)

\* text_chunks[i:i + batch_size], i counted from 0
Slice(text_chunks, i) ==
    SubSeq(text_chunks, i + 1,
           IF i + batch_size < Len(text_chunks) THEN i + batch_size
           ELSE Len(text_chunks))

\* the vector the embedding service computes for a chunk
Vector(chunk) == [ty |-> "list", embedding_of |-> chunk]

\* genai.embed_content(content=batch) when it returns: one vector per
\* chunk ("ok"), a list one vector short ("short"), a list with one vector
\* more ("long") or a response without the 'embedding' key ("empty")
embed_content(batch, reply) ==
    IF reply = "ok"
    THEN [embedding |-> [k \in DOMAIN batch |-> Vector(batch[k])]]
    ELSE IF reply = "short"
    THEN [embedding |-> [k \in 1..(Len(batch) - 1) |-> Vector(batch[k])]]
    ELSE IF reply = "long"
    THEN [embedding |-> [k \in 1..(Len(batch) + 1) |->
                            Vector(batch[IF k <= Len(batch) THEN k ELSE 1])]]
    ELSE [usage |-> <<>>]

\* response.get('embedding', [])
BatchEmbeddings(response) ==
    IF "embedding" \in DOMAIN response THEN response.embedding ELSE <<>>

EmbeddingRecord(chunk, embedding, source_table, record_id, model_used) ==
    [text_chunk       |-> chunk,
     embedding        |-> embedding,
     source_table     |-> source_table,
     source_record_id |-> record_id,
     model_used       |-> model_used]

\* lines 170, 177, 206-207, 210-211: every chunk of the list without vector
Failed(chunks, source_table, record_id, model_used) ==
    [k \in DOMAIN chunks |->
        EmbeddingRecord(chunks[k], PyNone, source_table, record_id, model_used)]

\* a batch that keeps the vectors a response of another length offers
ZippedAvailable(batch, batch_embeddings, source_table, record_id) ==
    [k \in DOMAIN batch |->
        EmbeddingRecord(batch[k],
                        IF k <= Len(batch_embeddings) THEN batch_embeddings[k]
                        ELSE PyNone,
                        source_table, record_id, embedding_model)]

\* lines 192-207: the records of a batch whose call returned batch_embeddings
Zipped(batch, batch_embeddings, source_table, record_id) ==
    IF Len(batch_embeddings) = Len(batch)
    THEN [k \in DOMAIN batch |->
            EmbeddingRecord(batch[k], batch_embeddings[k], source_table,
                            record_id, embedding_model)]
    ELSE Failed(batch, source_table, record_id, embedding_model)

\* a batch that keeps the vectors of a short response
BatchRecordsPartial(batch, reply, source_table, record_id) ==
    IF reply = "raise"
    THEN Failed(batch, source_table, record_id, embedding_model)
    ELSE [k \in DOMAIN BatchEmbeddings(embed_content(batch, reply)) |->
            EmbeddingRecord(batch[k],
                            BatchEmbeddings(embed_content(batch, reply))[k],
                            source_table, record_id, embedding_model)]

\* lines 184-211: one pass of the loop body
BatchRecords(batch, reply, source_table, record_id) ==
    IF reply = "raise"
    THEN Failed(batch, source_table, record_id, embedding_model)
    ELSE Zipped(batch, BatchEmbeddings(embed_content(batch, reply)),
                source_table, record_id)

\* the outcome of the loop: the records appended and the batches submitted
Looped(results, submitted) == [results |-> results, submitted |-> submitted]

PrependBatch(records, i, rest) ==
    Looped(records \o rest.results, <<i \div batch_size + 1>> \o rest.submitted)

\* a loop that an exception of the embedding call leaves
RECURSIVE BatchesUntilError(_, _, _, _, _)
BatchesUntilError(text_chunks, i, replies, source_table, record_id) ==
    IF i >= Len(text_chunks) THEN Looped(<<>>, <<>>)
    ELSE IF replies[i \div batch_size + 1] = "raise"
    THEN Looped(Failed(Slice(text_chunks, i), source_table, record_id,
                       embedding_model),
                <<i \div batch_size + 1>>)
    ELSE PrependBatch(BatchRecords(Slice(text_chunks, i),
                                   replies[i \div batch_size + 1],
                                   source_table, record_id),
                      i,
                      BatchesUntilError(text_chunks, i + batch_size, replies,
                                        source_table, record_id))

\* a loop that submits a batch again when its call raised
RECURSIVE BatchesRetrying(_, _, _, _, _)
BatchesRetrying(text_chunks, i, replies, source_table, record_id) ==
    IF i >= Len(text_chunks) THEN Looped(<<>>, <<>>)
    ELSE IF replies[i \div batch_size + 1] = "raise"
    THEN PrependBatch(<<>>, i,
             PrependBatch(BatchRecords(Slice(text_chunks, i), "raise",
                                       source_table, record_id),
                          i,
                          BatchesRetrying(text_chunks, i + batch_size, replies,
                                          source_table, record_id)))
    ELSE PrependBatch(BatchRecords(Slice(text_chunks, i),
                                   replies[i \div batch_size + 1],
                                   source_table, record_id),
                      i,
                      BatchesRetrying(text_chunks, i + batch_size, replies,
                                      source_table, record_id))

\* line 183: for i in range(i, len(text_chunks), batch_size)
RECURSIVE Batches(_, _, _, _, _)
Batches(text_chunks, i, replies, source_table, record_id) ==
    IF i >= Len(text_chunks) THEN Looped(<<>>, <<>>)
    ELSE PrependBatch(BatchRecords(Slice(text_chunks, i),
                                   replies[i \div batch_size + 1],
                                   source_table, record_id),
                      i,
                      Batches(text_chunks, i + batch_size, replies,
                              source_table, record_id))

\* generate_embeddings_for_chunks(text_chunks, source_table, record_id) in
\* an environment where the API key is set or not (key), genai.configure
\* returns or raises (configure) and the call for batch b ends as replies[b]
generate_embeddings_for_chunks(key, configure, replies, text_chunks, source_table, record_id) ==
    IF ~key \/ configure = "raise"
    THEN Looped(Failed(text_chunks, source_table, record_id, NA), <<>>)
    ELSE Batches(text_chunks, 0, replies, source_table, record_id)

-----------------------------------------------------------------------------
(* Embedding storage *)

\* connect_to_supabase(): credentials set and the probing GET accepted
connect_to_supabase(connect) == connect = "ok"

\* str(v) of an embedding
Str(v) ==
    IF v.ty = "NoneType" THEN PyStr(<<"None">>) ELSE [ty |-> "str", str_of |-> v]

\* a filter that lets every record through
ValidEmbeddingsUnfiltered(embeddings_data) == embeddings_data

\* line 225
ValidEmbeddings(embeddings_data) ==
    SelectSeq(embeddings_data, LAMBDA data : data.embedding.ty # "NoneType")

\* lines 243-253
DataToInsert(valid_embeddings_data) ==
    [k \in DOMAIN valid_embeddings_data |->
        [source_table     |-> valid_embeddings_data[k].source_table,
         source_record_id |-> valid_embeddings_data[k].source_record_id,
         text_chunk       |-> valid_embeddings_data[k].text_chunk,
         embedding        |-> Str(valid_embeddings_data[k].embedding),
         model_used       |-> valid_embeddings_data[k].model_used]]

\* what a call amounts to: the value returned, the bodies posted to
\* knowledge_vectors and the caller's list after the call
Stored(ret, posted, embeddings_data) ==
    [ret |-> ret, posted |-> posted, embeddings_data |-> embeddings_data]

\* lines 256-275: True only for a 201 answer listing every row
Inserted(post) == post = "created"

\* store_embeddings_in_supabase(embeddings_data) in an environment where
\* the connection ends as connect and the POST as post
store_embeddings_in_supabase(connect, post, embeddings_data) ==
    IF ~connect_to_supabase(connect) THEN Stored(FALSE, <<>>, embeddings_data)
    ELSE IF embeddings_data = <<>> THEN Stored(TRUE, <<>>, embeddings_data)
    ELSE IF ValidEmbeddings(embeddings_data) = <<>>
    THEN Stored(TRUE, <<>>, embeddings_data)
    ELSE Stored(Inserted(post),
                <<DataToInsert(ValidEmbeddings(embeddings_data))>>,
                embeddings_data)

-----------------------------------------------------------------------------
(* Pipeline.  import_dataset is the environment's: it delivers nothing      *)
(* ("none": unknown type, no Kaggle connection, any exception), an empty    *)
(* table ("empty") or a table.  update_supabase_data writes nothing         *)
(* (simulation only) and its result is not looked at.                       *)

ErrorEntry(t, error) ==
    [success |-> FALSE, dataset_type |-> t, error |-> error]

\* line 680
SuccessEntry(t, df_processed, model_info) ==
    [success |-> TRUE, dataset_type |-> t,
     records_processed |-> Len(df_processed.rows), model_info |-> model_info]

\* what a run_pipeline call amounts to: the registry and the directory
\* after it, the entry returned, whether a bundle was registered and how
\* save_model went ("skipped": not called, "saved": it returned True,
\* "failed": it returned False)
Piped(reg, fs, ret, trained_ok, save_ret) ==
    [models |-> reg, files |-> fs, ret |-> ret, trained |-> trained_ok,
     save_ret |-> save_ret]

\* lines 677-680: s is what save_model amounted to
AfterSave(reg, fs, t, df_processed, model_info, s) ==
    Piped(reg, s.files, SuccessEntry(t, df_processed, model_info), TRUE,
          IF s.ret THEN "saved" ELSE "failed")

\* lines 672-683: r is what train_model amounted to
AfterTrain(reg, fs, t, df_processed, r, failAt, partial) ==
    IF r.outcome = "raise"
    THEN Piped(reg, fs, ErrorEntry(t, r.ret.exception), FALSE, "skipped")
    ELSE IF "error" \in DOMAIN r.ret
    THEN Piped(reg, fs,
               ErrorEntry(t, PyStr(<<"Model training failed: ">> \o r.ret.error.s)),
               FALSE, "skipped")
    ELSE AfterSave(r.models, fs, t, df_processed, r.ret,
                   save_model(r.models, fs, t, failAt, partial))

\* lines 667-672: pp is what preprocess_data returned for table data
AfterPreprocess(reg, fs, cfg, t, pp, data, fit, failAt, partial) ==
    IF pp.df.rows = <<>> \/ pp.new_features = <<>>
    THEN Piped(reg, fs,
               ErrorEntry(t, PyStr(<<"Preprocessing failed or no features.">>)),
               FALSE, "skipped")
    ELSE AfterTrain(reg, fs, t, pp.df,
                    train_model(reg, cfg, t, pp.df, pp.new_features, data, fit),
                    failAt, partial)

\* run_pipeline(dataset_type) in the environment env: what import_dataset
\* delivers (imported, and which table), how the scikit-learn calls end (fit),
\* which write of save_model fails (failAt, partial); sets[k] is
\* preprocess_data of table k
run_pipeline(reg, fs, ds, t, env, sets) ==
    IF env.imported \in {"none", "empty"}
    THEN Piped(reg, fs,
               ErrorEntry(t, PyStr(<<"Dataset import failed or resulted in empty data.">>)),
               FALSE, "skipped")
    ELSE AfterPreprocess(reg, fs, ds[t], t, sets[env.table], env.table,
                         env.fit, env.failAt, env.partial)

\* what a run_all_pipelines call amounts to: the registry and the directory
\* after it, the report, and what each pipeline amounted to
PipedAll(reg, fs, results, steps) ==
    [models |-> reg, files |-> fs, ret |-> results, steps |-> steps]

\* a loop that a failed pipeline ends
ReportedUntilFailure(t, p, rest) ==
    IF p.ret.success
    THEN PipedAll(rest.models, rest.files, DictSet(rest.ret, t, p.ret),
                  DictSet(rest.steps, t,
                          [trained |-> p.trained, save_ret |-> p.save_ret]))
    ELSE PipedAll(p.models, p.files, DictSet(<<>>, t, p.ret),
                  DictSet(<<>>, t, [trained |-> p.trained, save_ret |-> p.save_ret]))

\* results[dataset_type] = self.run_pipeline(dataset_type), then the rest
Reported(t, p, rest) ==
    PipedAll(rest.models, rest.files, DictSet(rest.ret, t, p.ret),
             DictSet(rest.steps, t, [trained |-> p.trained, save_ret |-> p.save_ret]))

\* lines 691-692: the loop over the types still to do.  A pipeline touches
\* the bundle and the artifacts of its own type only, so the order of the
\* types does not show in the outcome.
RECURSIVE RunEach(_, _, _, _, _, _)
RunNext(t, p, ds, todo, envs, sets) ==
    Reported(t, p, RunEach(p.models, p.files, ds, todo \ {t}, envs, sets))

RunEach(reg, fs, ds, todo, envs, sets) ==
    IF todo = {} THEN PipedAll(reg, fs, <<>>, <<>>)
    ELSE RunNext(CHOOSE t \in todo : TRUE,
                 run_pipeline(reg, fs, ds, CHOOSE t \in todo : TRUE,
                              envs[CHOOSE t \in todo : TRUE], sets),
                 ds, todo, envs, sets)

\* run_all_pipelines()
run_all_pipelines(reg, fs, ds, envs, sets) ==
    IF DOMAIN ds = {} THEN PipedAll(reg, fs, <<>>, <<>>)
    ELSE RunEach(reg, fs, ds, DOMAIN ds, envs, sets)

-----------------------------------------------------------------------------
(* Location service (location_service_enhancer.py).  A location is a dict,  *)
(* kept like an entity as the mapping of its keys; an element of the list   *)
(* that is no dict is kept as the value it is.                              *)

IsLocation(location) == "ty" \notin DOMAIN location

\* lines 134-136: every configured type that is not registered is loaded
RECURSIVE LoadMissing(_, _, _)
LoadMissing(reg, fs, types) ==
    IF types = {} THEN reg
    ELSE LET t == CHOOSE u \in types : TRUE
         IN  LoadMissing(IF t \in DOMAIN reg THEN reg
                         ELSE load_model(reg, fs, t).models,
                         fs, types \ {t})

\* a recommendation of _generate_recommendations
Recommendation(type, title, priority, about) ==
    PyDict([type |-> PyStr(<<type>>), title |-> PyStr(<<title>>),
            priority |-> PyStr(<<priority>>), description |-> about])

\* v < n/d and v > n/d on a number v
NumLess(v, n, d)    == ~IsNaN(v) /\ v.num * d < n * v.den
NumGreater(v, n, d) == ~IsNaN(v) /\ v.num * d > n * v.den

\* lines 213-243: the section of realtimeData under key can be read and
\* its field compared (a section that is no dict, or a field that is no
\* number where a number is compared, raises)
SectionReadable(realtime, key, field) ==
    key \in DOMAIN realtime =>
        /\ IsDict(realtime[key])
        /\ field # "conditions"
              => IsNumber(DictGet(realtime[key].d, field, PyInt(0)))

\* lines 212-221
NetworkRecommendations(realtime) ==
    IF "connectivity" \in DOMAIN realtime
       /\ NumLess(DictGet(realtime["connectivity"].d, "signalStrength", PyInt(0)), 70, 1)
    THEN <<Recommendation("network", "Connectivity Alert", "medium",
               DictGet(realtime["connectivity"].d, "signalStrength", PyNone))>>
    ELSE <<>>

\* lines 223-232
WeatherRecommendations(realtime) ==
    IF "weather" \in DOMAIN realtime
       /\ DictGet(realtime["weather"].d, "conditions", PyNone) = PyStr(<<"Rainy">>)
    THEN <<Recommendation("weather", "Weather Alert", "high", PyNone)>>
    ELSE <<>>

\* lines 234-243
SocialRecommendations(realtime) ==
    IF "social" \in DOMAIN realtime
       /\ NumGreater(DictGet(realtime["social"].d, "score", PyInt(0)), 7, 10)
    THEN <<Recommendation("social", "Positive Social Activity", "low", PyNone)>>
    ELSE <<>>

\* lines 245-253
TimeRecommendations(current_hour) ==
    IF 11 <= current_hour /\ current_hour <= 14
    THEN <<Recommendation("time", "Lunch Time Activity", "medium", PyNone)>>
    ELSE <<>>

\* _generate_recommendations(location) at hour current_hour, for a
\* realtimeData that is absent, a dict or None
_generate_recommendations(location, current_hour) ==
    LET rt == DictGet(location, "realtimeData", PyDict(<<>>))
    IN  IF ~IsDict(rt) THEN Raised("TypeError")
        ELSE IF ~SectionReadable(rt.d, "connectivity", "signalStrength")
                \/ ~SectionReadable(rt.d, "weather", "conditions")
                \/ ~SectionReadable(rt.d, "social", "score")
        THEN Raised("TypeError")
        ELSE Appended(NetworkRecommendations(rt.d)
                      \o WeatherRecommendations(rt.d)
                      \o SocialRecommendations(rt.d)
                      \o TimeRecommendations(current_hour))

\* _predict_peak_hours at hour base_hour
_predict_peak_hours(base_hour) ==
    IF base_hour < 12 THEN <<12, 17, 20>>
    ELSE IF base_hour < 17 THEN <<17, 20, 9>>
    ELSE <<20, 9, 12>>

\* lines 172-177: location_input
LocationInput(enhanced, current_hour) ==
    LET total == DictGet(enhanced, "total_interactions", PyInt(0))
    IN  Row(<<hour, unique_users, ai_queries, voice_interactions>>,
            <<PyInt(current_hour), Mul(total, 7, 10, TRUE),
              Mul(total, 3, 10, TRUE), Mul(total, 2, 10, TRUE)>>)

\* lines 183-187: the stores into enhanced["analytics"]
WithAnalytics(enhanced, prediction, current_hour) ==
    LET old == IF "analytics" \in DOMAIN enhanced THEN enhanced["analytics"].d
               ELSE <<>>
    IN  DictSet(enhanced, "analytics",
            PyDict(DictSet(DictSet(DictSet(old,
                "predicted_popularity", prediction.prediction),
                "popularity_confidence", prediction.confidence),
                "peak_hours",
                PyList([i \in 1..3 |->
                           PyInt(_predict_peak_hours(current_hour)[i])]))))

\* lines 169-189: the popularity block; whatever it raises is logged only
Popularity(reg, fs, enhanced, current_hour) ==
    IF "realtimeData" \notin DOMAIN enhanced THEN enhanced
    ELSE IF ~CanMul(DictGet(enhanced, "total_interactions", PyInt(0)), TRUE)
    THEN enhanced
    ELSE IF "location" \notin DOMAIN reg THEN enhanced
    ELSE LET p == predict(reg, fs, "location",
                          LocationInput(enhanced, current_hour))
         IN  IF p.outcome # "return" \/ "error" \in DOMAIN p.ret THEN enhanced
             ELSE IF "analytics" \in DOMAIN enhanced
                     /\ ~IsDict(enhanced["analytics"])
             THEN enhanced
             ELSE WithAnalytics(enhanced, p.ret, current_hour)

\* lines 191-194, on the entity the popularity block left
Recommended(enhanced, r) ==
    IF r.raised THEN [raised |-> TRUE, exception |-> r.exception, value |-> enhanced]
    ELSE [raised |-> FALSE, exception |-> "none",
          value |-> DictSet(enhanced, "recommendations", PyList(r.chunks))]

WithRecommendations(enhanced, current_hour) ==
    Recommended(enhanced, _generate_recommendations(enhanced, current_hour))

\* _add_location_intelligence(location) at hour current_hour
_add_location_intelligence(reg, fs, location, current_hour) ==
    WithRecommendations(Popularity(reg, fs, location, current_hour), current_hour)

\* what the loop body of enhance_locations amounts to for one location: the
\* registry and the cache after it, the elements it appended to the result,
\* whether the enhancement was invoked, and whether the exception left the
\* loop
Pass(reg, cache, appended, invoked, kind) ==
    [models |-> reg, cache |-> cache, appended |-> appended,
     invoked |-> invoked, kind |-> kind]

\* lines 153-160, with the entity _add_location_intelligence returned: it is
\* cached under a truthy id and appended, and then its name is logged
Finish(reg, cache, location_id, enhanced_location, original) ==
    IF "name" \in DOMAIN enhanced_location
    THEN Pass(reg,
              IF Truthy(location_id)
              THEN DictSet(cache, location_id, enhanced_location) ELSE cache,
              <<enhanced_location>>, TRUE, "enhanced")
    ELSE Pass(reg,
              IF Truthy(location_id)
              THEN DictSet(cache, location_id, enhanced_location) ELSE cache,
              <<enhanced_location, original>>, TRUE, "failed")

\* lines 150-160, with the outcome a of _add_location_intelligence
AfterIntelligence(reg, cache, location_id, a, original) ==
    IF a.raised THEN Pass(reg, cache, <<original>>, TRUE, "failed")
    ELSE Finish(reg, cache, location_id, a.value, original)

\* the location as the two calls left it: its sections as
\* enhance_location_data left them (original), its analytics dict, which the
\* copies share, as the popularity block left it
SharedAnalytics(original, a) ==
    [k \in DOMAIN original |->
        IF k = "analytics" /\ IsDict(original[k]) THEN a.value[k]
        ELSE original[k]]

\* lines 147-160, with the outcome e of enhance_location_data
AfterEnhancement(fs, cache, location_id, e, a) ==
    IF e.outcome = "raise"
    THEN Pass(e.models, cache, <<e.arg>>, TRUE, "failed")
    ELSE AfterIntelligence(e.models, cache, location_id, a,
                           SharedAnalytics(e.arg, a))

\* lines 147-150: the two calls
Enhanced(fs, cache, location_id, e, current_hour) ==
    AfterEnhancement(fs, cache, location_id, e,
        IF e.outcome = "raise" THEN [raised |-> TRUE]
        ELSE _add_location_intelligence(e.models, fs, e.ret, current_hour))

\* lines 139-160: the loop body for one location.  An element that is no
\* dict raises at line 141 and again in the handler, at line 159, which
\* leaves the loop and the call.
EnhanceOne(ds, reg, fs, cache, location, now, current_hour) ==
    IF ~IsLocation(location)
    THEN Pass(reg, cache, <<>>, FALSE, "abort")
    ELSE IF DictGet(location, "id", PyNone) \in DOMAIN cache
    THEN Pass(reg, cache, <<cache[DictGet(location, "id", PyNone)]>>, FALSE,
              "cached")
    ELSE Enhanced(fs, cache, DictGet(location, "id", PyNone),
                  enhance_location_data(ds, reg, fs, location, now), current_hour)

\* the outcome of the loop over the locations from position i on
Served(reg, cache, outcome, enhanced_locations, kinds) ==
    [models |-> reg, cache |-> cache, outcome |-> outcome,
     ret |-> enhanced_locations, kinds |-> kinds]

\* (an exception that leaves the call takes the list built so far with it)
PrependPass(p, rest) ==
    Served(rest.models, rest.cache, rest.outcome,
           IF rest.outcome = "raise" THEN <<>> ELSE p.appended \o rest.ret,
           <<p.kind>> \o rest.kinds)

RECURSIVE EnhanceFrom(_, _, _, _, _, _, _, _)

\* the rest of the loop after the pass p for location i
EnhanceNext(ds, fs, locations, i, now, current_hour, p) ==
    IF p.kind = "abort"
    THEN Served(p.models, p.cache, "raise", <<>>, <<"abort">>)
    ELSE PrependPass(p, EnhanceFrom(ds, p.models, fs, p.cache, locations,
                                    i + 1, now, current_hour))

\* line 138: for location in locations
EnhanceFrom(ds, reg, fs, cache, locations, i, now, current_hour) ==
    IF i > Len(locations) THEN Served(reg, cache, "return", <<>>, <<>>)
    ELSE EnhanceNext(ds, fs, locations, i, now, current_hour,
             EnhanceOne(ds, reg, fs, cache, locations[i], now, current_hour))

\* enhance_locations(locations) at clock reading now, hour current_hour
enhance_locations(ds, reg, fs, cache, locations, now, current_hour) ==
    EnhanceFrom(ds, LoadMissing(reg, fs, DOMAIN ds), fs, cache, locations, 1,
                now, current_hour)

-----------------------------------------------------------------------------
(* Configurations and inputs explored *)

category == <<"c">>

NetworkConfig ==
    [features |-> <<category, network_type, signal_strength>>,
     target |-> reliability_score]

LocationConfig ==
    [features |-> <<category, hour>>, target |-> total_interactions]

\* dataset_configs.json as loaded by _load_dataset_configs
RegistryDatasets == [network |-> NetworkConfig, location |-> LocationConfig]

PredictDatasets == [network |-> NetworkConfig]

\* the enhancement composer's dataset configurations: one with both
\* sub-domains (regression targets), one with the network sub-domain only
\* (classification target)
ComposerNetworkConfig ==
    [features |-> <<network_type, signal_strength>>, target |-> reliability_score]

SocialConfig ==
    [features |-> <<total_posts, total_likes>>, target |-> avg_sentiment]

LatencyConfig ==
    [features |-> <<signal_strength, latency>>, target |-> category]

\* the configuration of the location type the service asks for a popularity
PopularityConfig ==
    [features |-> <<hour, unique_users>>, target |-> total_interactions]

ComposerDatasets ==
    { [network |-> ComposerNetworkConfig, social |-> SocialConfig],
      [network |-> LatencyConfig] }

\* raw tables import_dataset may deliver, each with the configuration it is
\* imported under.  Network: the first has two values of each categorical
\* column and a missing number, the second one value and a missing text
\* cell.  Location: the second lacks the target column, the last one (at
\* the end) every feature column.
RawTables ==
    << [t |-> "network", cfg |-> NetworkConfig,
        df |-> Table(<<category, network_type, signal_strength, reliability_score>>,
            << <<PyStr(<<"a">>), PyStr(<<"5", "G">>), PyInt(80), PyInt(1)>>,
               <<PyStr(<<"b">>), PyStr(<<"4", "G">>), NaN, PyInt(0)>> >>)],
       [t |-> "network", cfg |-> NetworkConfig,
        df |-> Table(<<category, network_type, signal_strength, reliability_score>>,
            << <<PyStr(<<"a">>), PyStr(<<"5", "G">>), PyInt(60), PyInt(1)>>,
               <<PyStr(<<"a">>), PyNone, PyInt(70), PyInt(1)>> >>)],
       [t |-> "location", cfg |-> LocationConfig,
        df |-> Table(<<category, hour, total_interactions>>,
            << <<PyStr(<<"a">>), PyInt(3), PyInt(5)>>,
               <<PyStr(<<"b">>), PyInt(4), PyInt(7)>> >>)],
       [t |-> "location", cfg |-> LocationConfig,
        df |-> Table(<<category, hour, latency>>,
            << <<PyStr(<<"a">>), PyInt(3), PyInt(5)>>,
               <<PyStr(<<"a">>), PyInt(4), PyInt(7)>> >>)],
       [t |-> "network", cfg |-> ComposerNetworkConfig,
        df |-> Table(<<network_type, signal_strength, reliability_score>>,
            << <<PyStr(<<"5", "G">>), PyInt(80), PyInt(1)>>,
               <<PyStr(<<"4", "G">>), PyInt(60), PyInt(0)>> >>)],
       [t |-> "social", cfg |-> SocialConfig,
        df |-> Table(<<total_posts, total_likes, avg_sentiment>>,
            << <<PyInt(10), PyInt(50), PyInt(1)>>,
               <<PyInt(20), PyInt(100), PyInt(0)>> >>)],
       [t |-> "network", cfg |-> LatencyConfig,
        df |-> Table(<<signal_strength, latency, category>>,
            << <<PyInt(80), PyInt(20), PyStr(<<"a">>)>>,
               <<PyInt(60), PyInt(30), PyStr(<<"b">>)>> >>)],
       [t |-> "location", cfg |-> LocationConfig,
        df |-> Table(<<latency, total_interactions>>,
            << <<PyInt(20), PyInt(5)>>,
               <<PyInt(30), PyInt(7)>> >>)],
       [t |-> "location", cfg |-> PopularityConfig,
        df |-> Table(<<hour, unique_users, total_interactions>>,
            << <<PyInt(9), PyInt(70), PyInt(100)>>,
               <<PyInt(12), PyInt(140), PyInt(200)>> >>)] >>

\* the (df, new_features) pairs preprocess_data hands to train_model
TrainingSets ==
    [k \in DOMAIN RawTables |-> preprocess_data(RawTables[k].df, RawTables[k].cfg)]

\* the tables import_dataset may deliver for type t under configuration cfg
TrainingFor(t, cfg) ==
    {k \in DOMAIN RawTables : RawTables[k].t = t /\ RawTables[k].cfg = cfg}

Input(keys, vals) == Row(keys, vals)

\* prediction requests: seen values, unseen values, a text where a number is
\* expected, a request with one feature only, and the empty request
Inputs ==
    { Input(<<category, network_type, signal_strength>>,
            <<PyStr(<<"a">>), PyStr(<<"5", "G">>), PyInt(80)>>),
      Input(<<category, network_type, signal_strength>>,
            <<PyStr(<<"c">>), PyStr(<<"3", "G">>), PyInt(80)>>),
      Input(<<signal_strength>>, <<PyStr(<<"x">>)>>),
      Input(<<signal_strength>>, <<PyInt(80)>>),
      Input(<<>>, <<>>) }

\* {**f, **g}
Merge(f, g) ==
    [k \in DOMAIN f \cup DOMAIN g |-> IF k \in DOMAIN g THEN g[k] ELSE f[k]]

Section(keys, vals) == PyDict(Row(keys, vals))

\* connectivity sections: complete; signal strength None; already enhanced
\* once; texts where numbers are expected
ConnComplete ==
    Section(<<"networkType", "signalStrength", "latency">>,
            <<PyStr(<<"5", "G">>), PyInt(80), PyInt(20)>>)

ConnNoSignal ==
    Section(<<"networkType", "signalStrength">>, <<PyStr(<<"5", "G">>), PyNone>>)

ConnEnhanced ==
    Section(<<"networkType", "signalStrength", "latency",
              "reliability_score", "prediction_confidence">>,
            <<PyStr(<<"5", "G">>), PyInt(80), PyInt(20), PyFloat(0), PyFloat(0)>>)

ConnText ==
    Section(<<"networkType", "signalStrength", "latency">>,
            <<PyStr(<<"5", "G">>), PyStr(<<"x">>), PyStr(<<"x">>)>>)

\* social sections: with volume; volume None; no volume; already enhanced
\* once
SocVolume == Section(<<"volume", "sentiment">>, <<PyInt(10), PyInt(1)>>)

SocVolumeNone == Section(<<"volume">>, <<PyNone>>)

SocNoVolume == Section(<<"sentiment">>, <<PyInt(1)>>)

SocEnhanced ==
    Section(<<"volume", "enhanced_sentiment">>, <<PyInt(10), PyFloat(0)>>)

\* the stamp of an earlier enhancement
OldStamp ==
    [enhanced_by_deepmind |-> PyBool(TRUE),
     enhancement_timestamp |-> PyStr(<<"t0">>)]

Named == [name |-> PyStr(<<"p">>)]

\* the entities handed to enhance_location_data: without sections, with one
\* section (which may be no dict), and with both sections and an old stamp
Entities ==
    {Named}
    \cup {Merge(Named, [connectivity |-> c]) :
            c \in {ConnComplete, ConnNoSignal, ConnEnhanced, ConnText, PyNone}}
    \cup {Merge(Named, [social |-> o]) :
            o \in {SocVolume, SocVolumeNone, SocNoVolume, SocEnhanced}}
    \cup {Merge(Merge(Named, OldStamp), [connectivity |-> c, social |-> o]) :
            c \in {ConnComplete, ConnNoSignal, ConnEnhanced},
            o \in {SocVolume, SocVolumeNone, SocEnhanced}}

\* clock readings of datetime.now().isoformat()
Instants == {"t1"}

\* coordinates of a record: none; structured; textual; textual with a
\* latitude that is no number, with a longitude that is no number, with one
\* part, with three parts
CoordinateParts ==
    { <<>>,
      [coordinates |-> Section(<<"x", "y">>, <<PyInt(1), PyInt(2)>>)],
      [coordinates |-> PyStr(<<"(", "1", ",", " ", "2", ")">>)],
      [coordinates |-> PyStr(<<"(", "1", ",", "x", ")">>)],
      [coordinates |-> PyStr(<<"(", "x", ",", "2", ")">>)],
      [coordinates |-> PyStr(<<"(", "1", ")">>)],
      [coordinates |-> PyStr(<<"(", "1", ",", "2", ",", "3", ")">>)] }

\* a personality and a voice profile with every optional section in order
CompleteParts ==
    Merge([personality_data |-> PyDict(Merge(
              [traits |-> PyDict((<<"o", "_", "e">> :> PyRat(1, 2)))],
              Merge([voiceCharacteristics |->
                        Section(<<"tone">>, <<PyStr(<<"calm">>)>>)],
                    [culturalInfluence |->
                        Section(<<"primaryCulture", "languages">>,
                                <<PyStr(<<"x">>), PyList(<<PyStr(<<"en">>)>>)>>)])))],
          [voice_profile |-> Section(<<"voiceId", "stability", "similarityBoost">>,
                <<PyStr(<<"v">>), PyRat(1, 2), PyRat(3, 4)>>)])

\* traits: none; empty; one trait; one trait without value
TraitsParts ==
    { <<>>,
      [traits |-> PyDict(<<>>)],
      [traits |-> PyDict((<<"o", "_", "e">> :> PyRat(1, 2)))],
      [traits |-> PyDict((<<"o", "_", "e">> :> PyNone))] }

\* voice characteristics: none; a mapping; a text
VoiceCharacteristicsParts ==
    { <<>>,
      [voiceCharacteristics |-> Section(<<"tone">>, <<PyStr(<<"calm">>)>>)],
      [voiceCharacteristics |-> PyStr(<<"calm">>)] }

\* cultural influence: none; complete; languages None
CulturalParts ==
    { <<>>,
      [culturalInfluence |-> Section(<<"primaryCulture", "languages">>,
            <<PyStr(<<"x">>), PyList(<<PyStr(<<"en">>)>>)>>)],
      [culturalInfluence |-> Section(<<"primaryCulture", "languages">>,
            <<PyStr(<<"x">>), PyNone>>)] }

\* personality_data: none; None; a text; a mapping of every combination of
\* the parts above (the empty mapping among them)
PersonalityParts ==
    { <<>>, [personality_data |-> PyNone], [personality_data |-> PyStr(<<"x">>)] }
    \cup { [personality_data |-> PyDict(Merge(tr, Merge(vc, cu)))] :
             tr \in TraitsParts, vc \in VoiceCharacteristicsParts,
             cu \in CulturalParts }

\* voice_profile: none; empty; complete; defaults; stability None; a text
VoiceProfileParts ==
    { <<>>,
      [voice_profile |-> PyDict(<<>>)],
      [voice_profile |-> Section(<<"voiceId", "stability", "similarityBoost">>,
            <<PyStr(<<"v">>), PyRat(1, 2), PyRat(3, 4)>>)],
      [voice_profile |-> Section(<<"voiceId">>, <<PyStr(<<"v">>)>>)],
      [voice_profile |-> Section(<<"voiceId", "stability">>,
            <<PyStr(<<"v">>), PyNone>>)],
      [voice_profile |-> PyStr(<<"v">>)] }

Identified == [id |-> PyInt(7), location_name |-> PyStr(<<"L">>)]

\* the location_memories records handed to process_location_memory_to_chunks:
\* without optional section and with all of them under every form of
\* coordinates, and with every combination of the optional sections
Records ==
    { Merge(Identified, co) : co \in CoordinateParts }
    \cup { Merge(Identified, Merge(co, CompleteParts)) : co \in CoordinateParts }
    \cup { Merge(Identified, Merge(pe, vp)) :
             pe \in PersonalityParts, vp \in VoiceProfileParts }

\* chunk k of a long list: the identity chunk of record k
TextChunk(k) == IdentityChunk([id |-> PyInt(k)])

\* lengths of the chunk lists: none, one, a full batch, a batch and a half,
\* two batches and one chunk
Lengths == {0, 1, batch_size, batch_size + batch_size \div 2, 2 * batch_size + 1}

\* the chunk lists, by length
ChunkLists == [n \in Lengths |-> [k \in 1..n |-> TextChunk(k)]]

ChunkList(n) == ChunkLists[n]

BatchCount(n) == (n + batch_size - 1) \div batch_size

\* how the embedding call for one batch can end
Replies == {"ok", "short", "long", "empty", "raise"}

\* how the POST to knowledge_vectors can end: 201 with every row, 201 with
\* fewer rows, 200, an HTTP error status, no answer
Posts == {"created", "created_fewer", "ok", "http_error", "request_exception"}

Connects == {"ok", "no_credentials", "raise"}

\* the environments of one run_pipeline call for type t: nothing or an
\* empty table imported; a table imported and the training run raising; a
\* table imported, trained, and write failAt of save_model failing (and
\* leaving its path untouched)
PipelineEnvs(ds, t) ==
    { [imported |-> i, table |-> 0, fit |-> "ok", failAt |-> 0, partial |-> FALSE] :
        i \in {"none", "empty"} }
    \cup { [imported |-> "table", table |-> k, fit |-> "raise", failAt |-> 0,
            partial |-> FALSE] : k \in TrainingFor(t, ds[t]) }
    \cup [imported : {"table"}, table : TrainingFor(t, ds[t]),
          fit : {"ok"}, failAt : 0..3, partial : {FALSE}]

\* the environments of one run_all_pipelines call, one per dataset type
\* (of the failing writes, the second one)
AllPipelineEnvs(ds) ==
    { envs \in [DOMAIN ds -> UNION { PipelineEnvs(ds, t) : t \in DOMAIN ds }] :
        \A t \in DOMAIN ds :
           /\ envs[t] \in PipelineEnvs(ds, t)
           /\ envs[t].imported # "empty"
           /\ envs[t].failAt \in {0, 2} }

\* names of columns of the tables preprocess_data is explored on
network         == <<"n">>
network_type_id == network_type \o <<US, "i", "d">>
latitude        == <<"l", "a", "t">>

\* the cells of the two rows of a text column and of a numeric column:
\* values, one missing cell, both cells missing
TextCells   == {PyStr(<<"a">>), PyStr(<<"b">>), PyNone}
NumberCells == {PyInt(60), PyInt(80), NaN}

\* a configuration whose first feature name is a prefix of the second one
PrefixConfig ==
    [features |-> <<network, network_type>>, target |-> reliability_score]

\* a configuration with one text and one numeric feature
PlainConfig ==
    [features |-> <<category, signal_strength>>, target |-> reliability_score]

\* a table of two rows, given column by column
TwoRows(cols, first, second) == Table(cols, <<first, second>>)

\* the tables preprocess_data is explored on, each with the configuration
\* it is imported under: a text and a numeric feature with a numeric
\* target; the same beside the latitude column of _generate_mock_data; the
\* numeric feature absent; a text target; a table with a column
\* network_type_id next to the text feature network_type; two text features
\* of which one name is a prefix of the other
PreprocessCases ==
    { [cfg |-> PlainConfig,
       df |-> TwoRows(<<category, signal_strength, reliability_score>>,
                      <<c1, s1, PyInt(1)>>, <<c2, s2, PyInt(0)>>)] :
         c1 \in TextCells, c2 \in TextCells, s1 \in NumberCells, s2 \in NumberCells }
    \cup
    { [cfg |-> PlainConfig,
       df |-> TwoRows(<<latitude, category, signal_strength, reliability_score>>,
                      <<PyInt(5), c1, s1, y1>>, <<PyInt(7), PyStr(<<"a">>), PyInt(60), PyInt(0)>>)] :
         c1 \in TextCells, s1 \in NumberCells, y1 \in {PyInt(1), NaN} }
    \cup
    { [cfg |-> PlainConfig,
       df |-> TwoRows(<<category, reliability_score>>,
                      <<c1, PyInt(1)>>, <<c2, PyInt(0)>>)] :
         c1 \in TextCells, c2 \in TextCells }
    \cup
    { [cfg |-> LatencyConfig,
       df |-> TwoRows(<<signal_strength, latency, category>>,
                      <<s1, PyInt(20), c1>>, <<PyInt(60), PyInt(30), c2>>)] :
         s1 \in NumberCells, c1 \in TextCells, c2 \in TextCells }
    \cup
    { [cfg |-> ComposerNetworkConfig,
       df |-> TwoRows(<<network_type_id, network_type, signal_strength, reliability_score>>,
                      <<PyInt(1), n1, PyInt(80), PyInt(1)>>,
                      <<PyInt(2), n2, PyInt(60), PyInt(0)>>)] :
         n1 \in TextCells, n2 \in TextCells }
    \cup
    { [cfg |-> PrefixConfig,
       df |-> TwoRows(<<network, network_type, reliability_score>>,
                      <<PyStr(<<"a">>), n1, PyInt(1)>>, <<w2, n2, PyInt(0)>>)] :
         w2 \in TextCells, n1 \in TextCells, n2 \in TextCells }

\* dataset_configs.json of the location service
ServiceDatasets == [network |-> LatencyConfig, location |-> PopularityConfig]

Id(s) == [id |-> PyStr(s)]

\* realtimeData with a weak signal, rain and a high social score
Realtime ==
    Section(<<"connectivity", "weather", "social">>,
            <<Section(<<"signalStrength">>, <<PyInt(60)>>),
              Section(<<"conditions">>, <<PyStr(<<"Rainy">>)>>),
              Section(<<"score">>, <<PyRat(9, 10)>>)>>)

\* the elements of the lists handed to enhance_locations: a location with a
\* connectivity section; one with realtimeData; one without 'name'; one
\* with the id of the first whose realtimeData is None; one whose
\* connectivity section is None; one with an empty id; an element that is
\* no dict
Locations ==
    { Merge(Named, Merge(Id(<<"a">>), [connectivity |-> ConnComplete])),
      Merge(Named, Merge(Id(<<"b">>),
            [realtimeData |-> Realtime, total_interactions |-> PyInt(100)])),
      Merge(Id(<<"b">>), [connectivity |-> ConnComplete]),
      Merge(Named, Merge(Id(<<"a">>), [realtimeData |-> PyNone])),
      Merge(Named, Merge(Id(<<"b">>), [connectivity |-> PyNone])),
      Merge(Named, Id(<<>>)),
      PyNone }

\* ./models after an earlier process has trained and saved both types
ServiceFiles ==
    LET net == TrainingSets[7]
        loc == TrainingSets[9]
        r1  == train_model(<<>>, LatencyConfig, "network", net.df,
                           net.new_features, 7, "ok").models
        r2  == train_model(r1, PopularityConfig, "location", loc.df,
                           loc.new_features, 9, "ok").models
    IN  save_model(r2, save_model(r2, <<>>, "network", 0, FALSE).files,
                   "location", 0, FALSE).files

\* the longest list handed to enhance_locations
MaxLocations == 2

LocationLists ==
    UNION { [1..n -> Locations] : n \in 0..MaxLocations }

\* readings of datetime.now().hour: in the morning, at lunch time
Hours == {9, 12}

-----------------------------------------------------------------------------
(* Operations *)

DatasetTypes == DOMAIN datasets

NoCall == [op |-> "none"]

Init ==
    /\ datasets = RegistryDatasets
    /\ models = <<>>
    /\ files = <<>>
    /\ runs = 0
    /\ trained = {}
    /\ saved = <<>>
    /\ faults = 0
    /\ lastCall = NoCall
    /\ location_cache = <<>>

\* __init__ in a new process: the registry starts empty, ./models is as the
\* previous process left it
Construct ==
    /\ models' = <<>>
    /\ lastCall' = [op |-> "__init__"]
    /\ UNCHANGED <<datasets, files, runs, trained, saved, faults, location_cache>>

\* train_model on what preprocess_data returned, as run_pipeline calls it
TrainModel(t, k, fit) ==
    /\ runs < MaxRuns
    /\ LET cfg == datasets[t]
           pp  == TrainingSets[k]
           r   == train_model(models, cfg, t, pp.df, pp.new_features, k, fit)
           ok  == r.outcome = "return" /\ "error" \notin DOMAIN r.ret
       IN  /\ models' = r.models
           /\ runs' = IF ok THEN runs + 1 ELSE runs
           /\ trained' = IF ok THEN trained \cup {r.models[t]} ELSE trained
           /\ lastCall' = [op |-> "train_model", t |-> t, outcome |-> r.outcome,
                           ret |-> r.ret]
    /\ UNCHANGED <<datasets, files, saved, faults, location_cache>>

\* save_model; the environment makes write number failAt fail (0: none)
SaveModel(t, failAt, partial) ==
    /\ failAt = 0 => ~partial
    /\ failAt # 0 => t \in DOMAIN models /\ faults < MaxFaults
    /\ faults' = IF failAt # 0 THEN faults + 1 ELSE faults
    /\ LET r == save_model(models, files, t, failAt, partial)
       IN  /\ files' = r.files
           /\ saved' = IF r.ret THEN DictSet(saved, t, models[t])
                       ELSE IF r.files = files THEN saved
                       ELSE DictWithout(saved, t)
           /\ lastCall' = [op |-> "save_model", t |-> t, outcome |-> "return",
                           ret |-> r.ret]
    /\ UNCHANGED <<datasets, models, runs, trained, location_cache>>

\* mutant: the artifacts are removed once they have been loaded
LoadModelConsuming(t) ==
    /\ LET r == load_model(models, files, t)
       IN  /\ models' = r.models
           /\ files' = IF r.ret
                       THEN [p \in DOMAIN files \ ArtifactPaths(t) |-> files[p]]
                       ELSE files
           /\ lastCall' = [op |-> "load_model", t |-> t, outcome |-> "return",
                           ret |-> r.ret]
    /\ UNCHANGED <<datasets, runs, trained, saved, faults, location_cache>>

LoadModel(t) ==
    /\ LET r == load_model(models, files, t)
       IN  /\ models' = r.models
           /\ lastCall' = [op |-> "load_model", t |-> t, outcome |-> "return",
                           ret |-> r.ret]
    /\ UNCHANGED <<datasets, files, runs, trained, saved, faults, location_cache>>

Predict(t, input_data) ==
    /\ LET r == predict(models, files, t, input_data)
       IN  /\ models' = r.models
           /\ lastCall' = [op |-> "predict", t |-> t, input |-> input_data,
                           outcome |-> r.outcome, ret |-> r.ret,
                           loads |-> r.loads, tried |-> r.tried,
                           scaled |-> r.scaled]
    /\ UNCHANGED <<datasets, files, runs, trained, saved, faults, location_cache>>

Next ==
    \/ \E t \in DatasetTypes : \E k \in TrainingFor(t, datasets[t]) :
         \E fit \in {"ok", "raise"} : TrainModel(t, k, fit)
    \/ \E t \in DatasetTypes : \E failAt \in 0..3 : \E partial \in BOOLEAN :
         SaveModel(t, failAt, partial)
    \/ \E t \in DatasetTypes : LoadModel(t)
    \/ Construct

\* the registry and its persistence, two dataset types
Spec == Init /\ [][Next]_vars

\* dataset_configs.json holds one type: the network type with a score
\* target or with a text target, or the social type with a score target
InitTrainer ==
    /\ datasets \in { [network |-> ComposerNetworkConfig],
                      [network |-> LatencyConfig],
                      [social |-> SocialConfig] }
    /\ models = <<>>
    /\ files = <<>>
    /\ runs = 0
    /\ trained = {}
    /\ saved = <<>>
    /\ faults = 0
    /\ lastCall = NoCall
    /\ location_cache = <<>>

\* the registry and its persistence, one dataset type, every kind of target
SpecTrainer == InitTrainer /\ [][Next]_vars

InitPredict ==
    /\ datasets = PredictDatasets
    /\ models = <<>>
    /\ files = <<>>
    /\ runs = 0
    /\ trained = {}
    /\ saved = <<>>
    /\ faults = 0
    /\ lastCall = NoCall
    /\ location_cache = <<>>

NextPredict ==
    \/ \E t \in DatasetTypes : \E k \in TrainingFor(t, datasets[t]) :
         \E fit \in {"ok", "raise"} : TrainModel(t, k, fit)
    \/ \E t \in DatasetTypes : \E failAt \in 0..3 : \E partial \in BOOLEAN :
         SaveModel(t, failAt, partial)
    \/ \E t \in DatasetTypes : LoadModel(t)
    \/ Construct
    \/ \E t \in DatasetTypes : \E input_data \in Inputs : Predict(t, input_data)

\* the predictor on one dataset type
SpecPredict == InitPredict /\ [][NextPredict]_vars

\* the record of an enhance_location_data call that amounted to r
EnhanceCall(location_data, r) ==
    [op |-> "enhance_location_data", arg |-> location_data,
     arg_after |-> r.arg, outcome |-> r.outcome, ret |-> r.ret,
     calls |-> r.calls, attached |-> r.attached]

Enhance(location_data, now) ==
    /\ lastCall' = EnhanceCall(location_data,
            enhance_location_data(datasets, models, files, location_data, now))
    /\ models' =
            enhance_location_data(datasets, models, files, location_data, now).models
    /\ UNCHANGED <<datasets, files, runs, trained, saved, faults, location_cache>>

InitEnhance ==
    /\ datasets \in ComposerDatasets
    /\ models = <<>>
    /\ files = <<>>
    /\ runs = 0
    /\ trained = {}
    /\ saved = <<>>
    /\ faults = 0
    /\ lastCall = NoCall
    /\ location_cache = <<>>

NextEnhance ==
    \/ \E t \in DatasetTypes : \E k \in TrainingFor(t, datasets[t]) :
         \E fit \in {"ok", "raise"} : TrainModel(t, k, fit)
    \/ \E t \in DatasetTypes : SaveModel(t, 0, FALSE)
    \/ Construct
    \/ \E location_data \in Entities : \E now \in Instants :
         Enhance(location_data, now)

\* the enhancement composer over trained, saved and reloaded bundles
SpecEnhance == InitEnhance /\ [][NextEnhance]_vars

InitPipeline ==
    /\ datasets \in {RegistryDatasets, <<>>}
    /\ models = <<>>
    /\ files = <<>>
    /\ runs = 0
    /\ trained = {}
    /\ saved = <<>>
    /\ faults = 0
    /\ lastCall = NoCall
    /\ location_cache = <<>>

\* the artifacts of type t in directory fs
ArtifactsOf(fs, t) == [p \in DOMAIN fs \cap ArtifactPaths(t) |-> fs[p]]

\* the types whose bundle was last saved whole, after pipelines that
\* amounted to steps turned registry and directory into reg and fs
SavedAfter(steps, reg, fs) ==
    [t \in { u \in DOMAIN saved \cup DOMAIN steps :
               IF u \in DOMAIN steps /\ steps[u].save_ret # "skipped"
               THEN \/ steps[u].save_ret = "saved"
                    \/ /\ u \in DOMAIN saved
                       /\ ArtifactsOf(fs, u) = ArtifactsOf(files, u)
               ELSE u \in DOMAIN saved } |->
        IF t \in DOMAIN steps /\ steps[t].save_ret = "saved" THEN reg[t] ELSE saved[t]]

\* the state after pipelines that amounted to steps
Ran(reg, fs, steps) ==
    /\ models' = reg
    /\ files' = fs
    /\ runs' = runs + Cardinality(DOMAIN steps)
    /\ trained' = trained \cup {reg[t] : t \in {u \in DOMAIN steps : steps[u].trained}}
    /\ saved' = SavedAfter(steps, reg, fs)
    /\ faults' = faults + Cardinality({t \in DOMAIN steps : steps[t].save_ret = "failed"})
    /\ UNCHANGED <<datasets, location_cache>>

RunPipelineCall(t, env, r) ==
    /\ lastCall' = [op |-> "run_pipeline", t |-> t, env |-> env,
                    outcome |-> "return", ret |-> r.ret,
                    trained |-> r.trained, save_ret |-> r.save_ret,
                    files_before |-> files, files_after |-> r.files]
    /\ Ran(r.models, r.files,
           DictSet(<<>>, t, [trained |-> r.trained, save_ret |-> r.save_ret]))

RunPipeline(t, env) ==
    /\ runs < MaxRuns
    /\ env.failAt # 0 => faults < MaxFaults
    /\ RunPipelineCall(t, env, run_pipeline(models, files, datasets, t, env,
                                            TrainingSets))

RunAllPipelinesCall(envs, r) ==
    /\ lastCall' = [op |-> "run_all_pipelines", envs |-> envs,
                    outcome |-> "return", ret |-> r.ret, steps |-> r.steps]
    /\ Ran(r.models, r.files, r.steps)

RunAllPipelines(envs) ==
    /\ runs < MaxRuns
    /\ faults + Cardinality({t \in DOMAIN envs : envs[t].failAt # 0}) <= MaxFaults
    /\ RunAllPipelinesCall(envs, run_all_pipelines(models, files, datasets, envs,
                                                   TrainingSets))

NextPipeline ==
    \/ \E t \in DatasetTypes : \E env \in PipelineEnvs(datasets, t) :
          RunPipeline(t, env)
    \/ \E envs \in AllPipelineEnvs(datasets) : RunAllPipelines(envs)
    \/ Construct

\* the training pipelines, one dataset type at a time and all together
SpecPipeline == InitPipeline /\ [][NextPipeline]_vars

\* the record of a process_location_memory_to_chunks call that amounted to r
ChunksCall(record, r) ==
    [op |-> "process_location_memory_to_chunks", record |-> record,
     outcome |-> IF r.raised THEN "raise" ELSE "return",
     ret |-> IF r.raised THEN [exception |-> PyStr(<<r.exception>>)]
             ELSE r.chunks]

Chunks(record) ==
    /\ lastCall' = ChunksCall(record, process_location_memory_to_chunks(record))
    /\ UNCHANGED <<datasets, models, files, runs, trained, saved, faults, location_cache>>

\* the record of a generate_embeddings_for_chunks call that amounted to r
EmbedCall(key, configure, replies, text_chunks, r) ==
    [op |-> "generate_embeddings_for_chunks", key |-> key,
     configure |-> configure, replies |-> replies,
     text_chunks |-> text_chunks, source_table |-> PyStr(<<"location_memories">>),
     record_id |-> PyInt(7), outcome |-> "return",
     submitted |-> r.submitted, ret |-> r.results]

Embed(key, configure, replies, text_chunks) ==
    /\ lastCall' = EmbedCall(key, configure, replies, text_chunks,
                       generate_embeddings_for_chunks(key, configure, replies,
                           text_chunks, PyStr(<<"location_memories">>), PyInt(7)))
    /\ UNCHANGED <<datasets, models, files, runs, trained, saved, faults, location_cache>>

\* the record of a store_embeddings_in_supabase call that amounted to r
StoreCall(connect, post, embeddings_data, r) ==
    [op |-> "store_embeddings_in_supabase", connect |-> connect, post |-> post,
     embeddings_data |-> embeddings_data, outcome |-> "return",
     posted |-> r.posted, arg_after |-> r.embeddings_data, ret |-> r.ret]

\* the records just generated are stored
Store(connect, post) ==
    /\ lastCall.op = "generate_embeddings_for_chunks"
    /\ lastCall' = StoreCall(connect, post, lastCall.ret,
                       store_embeddings_in_supabase(connect, post, lastCall.ret))
    /\ UNCHANGED <<datasets, models, files, runs, trained, saved, faults, location_cache>>

NextKnowledge ==
    \/ \E record \in Records : Chunks(record)
    \/ \E n \in Lengths, key \in BOOLEAN, configure \in {"ok", "raise"} :
          \E replies \in [1..BatchCount(n) -> Replies] :
             /\ (~key \/ configure = "raise") =>
                    /\ key \/ configure = "ok"
                    /\ \A b \in DOMAIN replies : replies[b] = "ok"
             /\ Embed(key, configure, replies, ChunkList(n))
    \/ \E connect \in Connects, post \in Posts :
          /\ connect # "ok" => post = "created"
          /\ Store(connect, post)

\* the knowledge-base path: chunk synthesis, embedding, storage
SpecKnowledge == Init /\ [][NextKnowledge]_vars

\* the record of a preprocess_data call on table df that amounted to r
PreprocessCall(t, df, r) ==
    [op |-> "preprocess_data", t |-> t, arg |-> df, outcome |-> "return",
     ret |-> r]

\* preprocess_data(df, t) on a table imported for type t
Preprocess(t, df) ==
    /\ lastCall' = PreprocessCall(t, df, preprocess_data(df, datasets[t]))
    /\ UNCHANGED <<datasets, models, files, runs, trained, saved, faults, location_cache>>

\* dataset_configs.json holds one type, under any of the configurations
InitPreprocess ==
    /\ datasets \in { [network |-> c.cfg] : c \in PreprocessCases }
    /\ models = <<>>
    /\ files = <<>>
    /\ runs = 0
    /\ trained = {}
    /\ saved = <<>>
    /\ faults = 0
    /\ lastCall = NoCall
    /\ location_cache = <<>>

NextPreprocess ==
    \E t \in DatasetTypes, c \in PreprocessCases :
        /\ c.cfg = datasets[t]
        /\ Preprocess(t, c.df)

\* the preprocessing of imported tables
SpecPreprocess == InitPreprocess /\ [][NextPreprocess]_vars

\* the record of an enhance_locations call that amounted to r
EnhanceLocationsCall(locations, current_hour, cache, r) ==
    [op |-> "enhance_locations", locations |-> locations,
     current_hour |-> current_hour, cache_before |-> cache,
     outcome |-> r.outcome, kinds |-> r.kinds,
     ret |-> IF r.outcome = "raise"
             THEN [exception |-> PyStr(<<"AttributeError">>)]
             ELSE r.ret]

EnhanceLocationsStep(locations, current_hour, r) ==
    /\ models' = r.models
    /\ location_cache' = r.cache
    /\ lastCall' = EnhanceLocationsCall(locations, current_hour, location_cache, r)
    /\ UNCHANGED <<datasets, files, runs, trained, saved, faults>>

EnhanceLocations(locations, now, current_hour) ==
    EnhanceLocationsStep(locations, current_hour,
        enhance_locations(datasets, models, files, location_cache, locations,
                          now, current_hour))

\* LocationServiceEnhancer.__init__ in a new process: the registry and the
\* cache start empty, ./models is as the previous process left it
ConstructService ==
    /\ models' = <<>>
    /\ location_cache' = <<>>
    /\ lastCall' = [op |-> "__init__"]
    /\ UNCHANGED <<datasets, files, runs, trained, saved, faults>>

\* a new process; ./models is empty or holds the bundles of both types
InitLocations ==
    /\ datasets = ServiceDatasets
    /\ models = <<>>
    /\ files \in {<<>>, ServiceFiles}
    /\ runs = 0
    /\ trained = {}
    /\ saved = <<>>
    /\ faults = 0
    /\ lastCall = NoCall
    /\ location_cache = <<>>

NextLocations ==
    \/ ConstructService
    \/ \E locations \in LocationLists : \E now \in Instants :
         \E current_hour \in Hours : EnhanceLocations(locations, now, current_hour)

\* the location service, with and without saved bundles
SpecLocations == InitLocations /\ [][NextLocations]_vars

-----------------------------------------------------------------------------
(* Properties of the predictor's reconstruction *)

\* the positions of the stored columns that carry the prefix of feature f
ColumnsOf(features, f) ==
    {i \in DOMAIN features : StartsWith(features[i], f \o <<US>>)}

\* C1: for every categorical raw feature f stored as two indicator columns
\* f_a, f_b, a successful predict on an input that gives f a text value has
\* reconstructed 1 for the column of that value and 0 for the other, and 0
\* for both columns when the value was not seen in training.
C1_OneHotRoundTrip ==
    (lastCall.op = "predict" /\ "prediction" \in DOMAIN lastCall.ret) =>
        LET t        == lastCall.t
            x        == lastCall.input
            features == models[t].features
            row      == lastCall.ret.prediction.row
        IN  \A f \in Range(datasets[t].features) :
                (/\ f \in DOMAIN x
                 /\ IsStr(x[f])
                 /\ Cardinality(ColumnsOf(features, f)) = 2) =>
                    \A i \in ColumnsOf(features, f) :
                        row[i] = PyInt(IF features[i] = DummyName(f, x[f].s)
                                       THEN 1 ELSE 0)

\* the case of C1 on a feature name without underscore: the column of the
\* given value of category got 1
C1_PlainNameReconstructed ==
    /\ lastCall.op = "predict"
    /\ "prediction" \in DOMAIN lastCall.ret
    /\ category \in DOMAIN lastCall.input
    /\ \E i \in DOMAIN models[lastCall.t].features :
          /\ models[lastCall.t].features[i]
                = DummyName(category, lastCall.input[category].s)
          /\ lastCall.ret.prediction.row[i] = PyInt(1)

-----------------------------------------------------------------------------
(* Properties of the registry and its persistence *)

\* model, scaler and feature list of b are those of bundle c
SameArtifacts(b, c) ==
    /\ b.model = c.model
    /\ b.info.scaler = c.info.scaler
    /\ b.features = c.features

\* C2: a bundle that load_model has just registered has the model, the
\* scaler and the feature list of one and the same trained bundle.
C2_LoadedFromOneRun ==
    (lastCall.op = "load_model" /\ lastCall.ret) =>
        \E c \in trained : SameArtifacts(models[lastCall.t], c)

\* what predict returns on bundle b for input x
PredictOn(b, x) == ExceptToError(TryPredict(b, x))

\* C3: when load_model succeeds on artifacts that the last save_model call
\* wrote completely, the registered bundle has the model, the scaler, the
\* feature list (in order), the task kind and the metrics of the bundle that
\* was saved, its feature importances are equal in value, and predict returns
\* the same result on both for every input.
C3_SaveLoadRoundTrip ==
    \A t \in DOMAIN saved :
        (lastCall.op = "load_model" /\ lastCall.t = t /\ lastCall.ret) =>
            LET b == models[t]
                c == saved[t]
            IN  /\ SameArtifacts(b, c)
                /\ b.info.type = c.info.type
                /\ b.info.metrics = c.info.metrics
                /\ DOMAIN b.info = DOMAIN c.info
                /\ DOMAIN b.info.feature_importance
                      = DOMAIN c.info.feature_importance
                /\ \A f \in DOMAIN c.info.feature_importance :
                      PyEq(b.info.feature_importance[f],
                           c.info.feature_importance[f])
                /\ \A x \in Inputs : PredictOn(b, x) = PredictOn(c, x)

\* a bundle fresh from train_model was saved completely and then loaded
C3_Witness ==
    /\ lastCall.op = "load_model"
    /\ lastCall.ret
    /\ lastCall.t \in DOMAIN saved
    /\ saved[lastCall.t] \in trained
    /\ \E x \in Inputs : "prediction" \in DOMAIN PredictOn(models[lastCall.t], x).ret

\* C4: a load_model call made while one of the three artifacts is absent
\* returns false and leaves the registry as it was; a call that returns true
\* found all three artifacts, read them, and registered a bundle.
C4_LoadAllOrNothing ==
    [][lastCall'.op = "load_model" =>
          LET t == lastCall'.t
          IN  /\ ~AllArtifactsExist(files, t) =>
                    (~lastCall'.ret /\ models' = models)
              /\ lastCall'.ret =>
                    /\ AllArtifactsExist(files, t)
                    /\ AllArtifactsReadable(files, t)
                    /\ t \in DOMAIN models'
                    /\ models'[t].model = JoblibLoad(files[ModelPath(t)])
                    /\ models'[t].info.scaler = JoblibLoad(files[ScalerPath(t)])
      ]_vars

\* load_model has just failed on a partly present artifact set, and the
\* registry still holds the bundle it held
C4_Witness ==
    /\ lastCall.op = "load_model"
    /\ ~lastCall.ret
    /\ \E p, q \in ArtifactPaths(lastCall.t) :
          p \in DOMAIN files /\ q \notin DOMAIN files
    /\ lastCall.t \in DOMAIN models

\* C5: load_model writes and deletes no artifact, changes no other dataset
\* type's registry entry, and a second load_model right after it would
\* return the same and leave the registry as the first left it.
C5_LoadIdempotent ==
    [][lastCall'.op = "load_model" =>
          LET t     == lastCall'.t
              again == load_model(models', files', t)
          IN  /\ files' = files
              /\ \A u \in DatasetTypes \ {t} :
                    /\ u \in DOMAIN models <=> u \in DOMAIN models'
                    /\ u \in DOMAIN models => models'[u] = models[u]
              /\ again.models = models'
              /\ again.ret = lastCall'.ret
      ]_vars

\* load_model has just replaced the entry of one type while another type is
\* registered and has artifacts of its own
C5_Witness ==
    /\ lastCall.op = "load_model"
    /\ lastCall.ret
    /\ \E u \in DatasetTypes \ {lastCall.t} :
          u \in DOMAIN models /\ ModelPath(u) \in DOMAIN files

-----------------------------------------------------------------------------
(* Properties of predict's results *)

\* C6: predict on a type without registered bundle whose load fails attempts
\* the load once, returns the no-model error for that type, leaves the
\* registry without the entry and does not enter reconstruction, scaling or
\* inference.
C6_NoModelAvailable ==
    [][(/\ lastCall'.op = "predict"
        /\ lastCall'.t \notin DOMAIN models
        /\ ~(AllArtifactsExist(files, lastCall'.t)
               /\ AllArtifactsReadable(files, lastCall'.t))) =>
          LET t == lastCall'.t
          IN  /\ lastCall'.loads = 1
              /\ lastCall'.outcome = "return"
              /\ lastCall'.ret = [error |-> PyStr(<<"No model available for ", t>>)]
              /\ t \notin DOMAIN models'
              /\ models' = models
              /\ ~lastCall'.tried
              /\ ~lastCall'.scaled
      ]_vars

\* predict has just failed for lack of a model while part of the artifacts
\* of the type exist
C6_Witness ==
    /\ lastCall.op = "predict"
    /\ lastCall.loads = 1
    /\ ~lastCall.tried
    /\ "error" \in DOMAIN lastCall.ret
    /\ lastCall.t \notin DOMAIN models
    /\ ModelPath(lastCall.t) \in DOMAIN files

\* C7: predict returns (never raises) a mapping that holds exactly one of
\* the keys prediction and error, the error being a string.
C7_PredictionOrError ==
    lastCall.op = "predict" =>
        /\ lastCall.outcome = "return"
        /\ ("prediction" \in DOMAIN lastCall.ret) # ("error" \in DOMAIN lastCall.ret)
        /\ "error" \in DOMAIN lastCall.ret => IsStr(lastCall.ret.error)

\* a failure inside the try block (scaling or inference) came back as an
\* error result
C7_Witness ==
    /\ lastCall.op = "predict"
    /\ lastCall.tried
    /\ "error" \in DOMAIN lastCall.ret

\* the inference itself failed (after scaling) and came back as an error
C7_InferenceFailureSeen ==
    /\ lastCall.op = "predict"
    /\ lastCall.scaled
    /\ "error" \in DOMAIN lastCall.ret

-----------------------------------------------------------------------------
(* Properties of the enhancement composer *)

SubDomains == {"network", "social"}

\* the section of the entity handed to the last enhance_location_data call,
\* and of the entity it returned
ArgSection(t) == lastCall.arg[SectionKey(t)]
RetSection(t) == lastCall.ret[SectionKey(t)]

\* the entity field a predictor input feature is read from
SourceField(f) ==
    IF f = network_type THEN "networkType"
    ELSE IF f = signal_strength THEN "signalStrength"
    ELSE IF f = download_speed THEN "bandwidth"
    ELSE IF f = latency THEN "latency"
    ELSE "volume"

\* the predictor input features a sub-domain derives from its section
DerivedFeatures(t) ==
    IF t = "network" THEN {network_type, signal_strength, download_speed, latency}
    ELSE {total_posts, total_likes, total_retweets, unique_users}

\* feature f of sub-domain t gets no value other than None from section d:
\* it is not derived at all, its source field is absent or None (the volume
\* multiples default to 0 when volume is absent)
LacksValue(t, f, d) ==
    \/ f \notin DerivedFeatures(t)
    \/ /\ f \in {network_type, signal_strength, download_speed, latency, total_posts}
       /\ DictGet(d, SourceField(f), PyNone) = PyNone
    \/ /\ f \in {total_likes, total_retweets, unique_users}
       /\ DictGet(d, "volume", PyInt(0)) = PyNone

\* the last call was enhance_location_data on an entity whose section for
\* sub-domain t is a dict that gives a required feature no value
MissingFeatureCase(t) ==
    /\ lastCall.op = "enhance_location_data"
    /\ t \in DOMAIN datasets
    /\ SectionKey(t) \in DOMAIN lastCall.arg
    /\ IsDict(ArgSection(t))
    /\ \E f \in Range(datasets[t].features) : LacksValue(t, f, ArgSection(t).d)

\* the returned entity has no prediction field in the section of t that the
\* input did not have with that value
NoNewPredictionFields(t) ==
    \A f \in {PredictionField(t), "prediction_confidence"} :
        f \in DOMAIN RetSection(t).d =>
            /\ f \in DOMAIN ArgSection(t).d
            /\ RetSection(t).d[f] = ArgSection(t).d[f]

\* C8: when the section of a sub-domain gives a required feature no value
\* (absent or None), predict is not invoked for that sub-domain, and the call
\* returns an entity without new prediction fields in that section and with
\* enhanced_by_deepmind = true.
C8_SkipOnMissingFeature ==
    \A t \in SubDomains :
        MissingFeatureCase(t) =>
            /\ t \notin lastCall.calls
            /\ lastCall.outcome = "return"
            /\ NoNewPredictionFields(t)
            /\ lastCall.ret["enhanced_by_deepmind"] = PyBool(TRUE)

\* C9: every enhance_location_data call returns an entity that carries
\* enhanced_by_deepmind = true and an enhancement_timestamp.
C9_AlwaysStamped ==
    lastCall.op = "enhance_location_data" =>
        /\ lastCall.outcome = "return"
        /\ "enhanced_by_deepmind" \in DOMAIN lastCall.ret
        /\ lastCall.ret["enhanced_by_deepmind"] = PyBool(TRUE)
        /\ "enhancement_timestamp" \in DOMAIN lastCall.ret

\* field f of dict d is in dict e with the same value
KeepsField(d, e, f) == f \in DOMAIN e /\ e[f] = d[f]

\* C10 as stated: every field of the input entity, top-level and inside its
\* connectivity and social sections, is in the returned entity with the
\* same value.
C10_NothingOverwritten ==
    (lastCall.op = "enhance_location_data" /\ lastCall.outcome = "return") =>
        \A k \in DOMAIN lastCall.arg :
            /\ k \in DOMAIN lastCall.ret
            /\ IF k \in {"connectivity", "social"} /\ IsDict(lastCall.arg[k])
               THEN /\ IsDict(lastCall.ret[k])
                    /\ \A f \in DOMAIN lastCall.arg[k].d :
                          KeepsField(lastCall.arg[k].d, lastCall.ret[k].d, f)
               ELSE lastCall.ret[k] = lastCall.arg[k]

\* the fields the call itself produced: the two stamps, and the prediction
\* fields of the sections whose prediction was attached
ProducedTopLevel == {"enhanced_by_deepmind", "enhancement_timestamp"}

ProducedIn(k) ==
    IF k = "connectivity" /\ "network" \in lastCall.attached
    THEN {"reliability_score", "prediction_confidence"}
    ELSE IF k = "social" /\ "social" \in lastCall.attached
    THEN {"enhanced_sentiment", "prediction_confidence"}
    ELSE {}

\* C10 (amended): every field of the input entity, top-level and inside its
\* connectivity and social sections, is in the returned entity, and has the
\* same value unless it is a field this call produced: the two stamps, and
\* the prediction and confidence fields of a section whose prediction was
\* attached.
C10_AdditiveExceptProduced ==
    (lastCall.op = "enhance_location_data" /\ lastCall.outcome = "return") =>
        \A k \in DOMAIN lastCall.arg :
            /\ k \in DOMAIN lastCall.ret
            /\ IF k \in {"connectivity", "social"} /\ IsDict(lastCall.arg[k])
               THEN /\ IsDict(lastCall.ret[k])
                    /\ \A f \in DOMAIN lastCall.arg[k].d :
                          /\ f \in DOMAIN lastCall.ret[k].d
                          /\ f \notin ProducedIn(k) =>
                                KeepsField(lastCall.arg[k].d, lastCall.ret[k].d, f)
               ELSE k \notin ProducedTopLevel => lastCall.ret[k] = lastCall.arg[k]

\* an entity that had been enhanced before got a prediction attached: its
\* old score was replaced, its other connectivity fields were kept
C10_Witness ==
    /\ lastCall.op = "enhance_location_data"
    /\ lastCall.outcome = "return"
    /\ "network" \in lastCall.attached
    /\ "connectivity" \in DOMAIN lastCall.arg
    /\ "reliability_score" \in DOMAIN lastCall.arg["connectivity"].d
    /\ lastCall.ret["connectivity"].d["reliability_score"]
          # lastCall.arg["connectivity"].d["reliability_score"]
    /\ KeepsField(lastCall.arg["connectivity"].d,
                  lastCall.ret["connectivity"].d, "networkType")

-----------------------------------------------------------------------------
(* Properties of the chunk synthesizer *)

\* value v is a present, non-empty section
NonEmptySection(v) == IsDict(v) /\ Truthy(v)

\* the sub-section of personality_data under key, None when there is none
PersonalitySection(record, key) ==
    IF NonEmptySection(DictGet(record, "personality_data", PyNone))
    THEN DictGet(record["personality_data"].d, key, PyNone)
    ELSE PyNone

\* the chunk sections a record calls for, in the fixed order
ExpectedSections(record) ==
    <<"identity">>
    \o (IF NonEmptySection(PersonalitySection(record, "traits"))
        THEN <<"traits">> ELSE <<>>)
    \o (IF NonEmptySection(PersonalitySection(record, "voiceCharacteristics"))
        THEN <<"voice characteristics">> ELSE <<>>)
    \o (IF NonEmptySection(PersonalitySection(record, "culturalInfluence"))
        THEN <<"cultural influences">> ELSE <<>>)
    \o (IF NonEmptySection(DictGet(record, "voice_profile", PyNone))
        THEN <<"voice profile">> ELSE <<>>)

\* C11: process_location_memory_to_chunks returns the identity chunk first
\* and then one chunk per present non-empty optional section (traits, voice
\* characteristics, cultural influences, voice profile) in that order:
\* between 1 and 5 chunks, exactly one for a record without optional section.
C11_ChunksInFixedOrder ==
    lastCall.op = "process_location_memory_to_chunks" =>
        /\ lastCall.outcome = "return"
        /\ Len(lastCall.ret) \in 1..5
        /\ [i \in DOMAIN lastCall.ret |-> lastCall.ret[i].section]
              = ExpectedSections(lastCall.record)

\* the coordinates of record are a text that is no pair of two numbers
MalformedCoordinates(record) ==
    /\ "coordinates" \in DOMAIN record
    /\ IsStr(record["coordinates"])
    /\ LET parts == SplitComma(StripParens(record["coordinates"].s), <<>>)
       IN  \/ Len(parts) # 2
           \/ \E i \in DOMAIN parts : ~FloatParses(parts[i])

\* C26: for a record whose coordinates are a malformed text,
\* process_location_memory_to_chunks returns the identity chunk and every
\* applicable optional chunk, and the identity chunk shows both longitude
\* and latitude as N/A.
C26_MalformedCoordinatesNotAvailable ==
    (/\ lastCall.op = "process_location_memory_to_chunks"
     /\ MalformedCoordinates(lastCall.record)) =>
        /\ lastCall.outcome = "return"
        /\ [i \in DOMAIN lastCall.ret |-> lastCall.ret[i].section]
              = ExpectedSections(lastCall.record)
        /\ lastCall.ret[1].longitude = NA
        /\ lastCall.ret[1].latitude = NA

-----------------------------------------------------------------------------
(* Properties of the embedding pipeline *)

\* C12: generate_embeddings_for_chunks returns exactly one record per input
\* chunk, the k-th record holding the k-th chunk, whatever the length of the
\* input and however the call of each batch ends (vectors, a count mismatch,
\* an exception); every record carries source_table, source_record_id and
\* model_used.
C12_OneRecordPerChunk ==
    lastCall.op = "generate_embeddings_for_chunks" =>
        /\ lastCall.outcome = "return"
        /\ Len(lastCall.ret) = Len(lastCall.text_chunks)
        /\ \A k \in DOMAIN lastCall.ret :
              /\ lastCall.ret[k].text_chunk = lastCall.text_chunks[k]
              /\ lastCall.ret[k].source_table = lastCall.source_table
              /\ lastCall.ret[k].source_record_id = lastCall.record_id
              /\ "model_used" \in DOMAIN lastCall.ret[k]
              /\ IsStr(lastCall.ret[k].model_used)

\* three batches, one of them with vectors, one raising, one a vector short
C12_Witness ==
    /\ lastCall.op = "generate_embeddings_for_chunks"
    /\ lastCall.key /\ lastCall.configure = "ok"
    /\ lastCall.replies = <<"ok", "raise", "short">>
    /\ Len(lastCall.text_chunks) = 2 * batch_size + 1
    /\ Len(lastCall.ret) = 2 * batch_size + 1

\* the batch chunk k (counted from 1) belongs to
BatchOf(k) == (k - 1) \div batch_size + 1

\* C13: an exception of the embedding call for one batch gives every chunk
\* of that batch, and of no batch whose call returned its vectors, a None
\* embedding, and every batch of the input is still submitted; the records
\* stay in input order.
C13_FailedBatchIsolated ==
    (/\ lastCall.op = "generate_embeddings_for_chunks"
     /\ lastCall.key /\ lastCall.configure = "ok") =>
        /\ lastCall.submitted
              = [b \in 1..BatchCount(Len(lastCall.text_chunks)) |-> b]
        /\ DOMAIN lastCall.ret = DOMAIN lastCall.text_chunks
        /\ \A k \in DOMAIN lastCall.text_chunks :
              /\ lastCall.ret[k].text_chunk = lastCall.text_chunks[k]
              /\ lastCall.replies[BatchOf(k)] = "raise"
                    => lastCall.ret[k].embedding = PyNone
              /\ lastCall.replies[BatchOf(k)] = "ok"
                    => lastCall.ret[k].embedding = Vector(lastCall.text_chunks[k])

\* 150 chunks, the second batch raising: records 1..100 carry vectors,
\* records 101..150 None
C13_Witness ==
    /\ lastCall.op = "generate_embeddings_for_chunks"
    /\ lastCall.key /\ lastCall.configure = "ok"
    /\ Len(lastCall.text_chunks) = 150
    /\ lastCall.replies = <<"ok", "raise">>
    /\ \A k \in 1..100 : lastCall.ret[k].embedding = Vector(TextChunk(k))
    /\ \A k \in 101..150 : lastCall.ret[k].embedding = PyNone
    /\ Len(lastCall.ret) = 150

\* a later batch that received vectors after an earlier one raised
C13_LaterBatchEmbedded ==
    /\ lastCall.op = "generate_embeddings_for_chunks"
    /\ lastCall.replies = <<"raise", "ok", "ok">>
    /\ lastCall.ret[1].embedding = PyNone
    /\ lastCall.ret[2 * batch_size + 1].embedding
          = Vector(TextChunk(2 * batch_size + 1))

\* the vectors the embedding call of batch b of the last call returned
Returned(b) ==
    BatchEmbeddings(embed_content(Slice(lastCall.text_chunks, (b - 1) * batch_size),
                                  lastCall.replies[b]))

\* the place of chunk k (counted from 1) in its batch
PlaceOf(k) == k - (BatchOf(k) - 1) * batch_size

\* C24: when the embedding call of a batch returns a number of vectors
\* different from the number of chunks of the batch, every chunk of the
\* batch gets a None embedding; when it returns as many vectors as chunks,
\* the chunk at place j of the batch gets the j-th returned vector.
C24_MismatchFailsWholeBatch ==
    (/\ lastCall.op = "generate_embeddings_for_chunks"
     /\ lastCall.key /\ lastCall.configure = "ok") =>
        \A k \in DOMAIN lastCall.text_chunks :
           lastCall.replies[BatchOf(k)] # "raise" =>
              IF Len(Returned(BatchOf(k)))
                    = Len(Slice(lastCall.text_chunks, (BatchOf(k) - 1) * batch_size))
              THEN lastCall.ret[k].embedding = Returned(BatchOf(k))[PlaceOf(k)]
              ELSE lastCall.ret[k].embedding = PyNone

\* 201 chunks: 99 vectors for the first batch, 101 for the second, one for
\* the third; only the last chunk has a vector
C24_Witness ==
    /\ lastCall.op = "generate_embeddings_for_chunks"
    /\ lastCall.key /\ lastCall.configure = "ok"
    /\ lastCall.replies = <<"short", "long", "ok">>
    /\ Len(Returned(1)) = batch_size - 1
    /\ Len(Returned(2)) = batch_size + 1
    /\ \A k \in 1..(2 * batch_size) : lastCall.ret[k].embedding = PyNone
    /\ lastCall.ret[2 * batch_size + 1].embedding
          = Vector(TextChunk(2 * batch_size + 1))

\* a batch whose response lacks the 'embedding' key
C24_NoVectorsSeen ==
    /\ lastCall.op = "generate_embeddings_for_chunks"
    /\ lastCall.replies = <<"empty">>
    /\ Len(lastCall.text_chunks) = batch_size
    /\ \A k \in 1..batch_size : lastCall.ret[k].embedding = PyNone

\* batch b of the last call's chunks, as handed to the embedding call
Batch(b) == Slice(lastCall.text_chunks, (b - 1) * batch_size)

\* the batches of the last call's chunks are the consecutive stretches of
\* 100 chunks, the last one holding what is left
ConsecutiveBatches ==
    LET n == Len(lastCall.text_chunks)
    IN  \A b \in 1..BatchCount(n) :
           /\ Len(Batch(b)) = IF b * 100 <= n THEN 100 ELSE n - (b - 1) * 100
           /\ \A j \in DOMAIN Batch(b) :
                 Batch(b)[j] = lastCall.text_chunks[(b - 1) * 100 + j]

\* the batches submitted are the first, the second, ... up to the last,
\* each once
EachBatchOnce ==
    lastCall.submitted = [b \in 1..BatchCount(Len(lastCall.text_chunks)) |-> b]

\* C25 as stated: every generate_embeddings_for_chunks call submits the
\* chunks as consecutive batches of 100, in order, each batch exactly once.
C25_EachChunkSubmittedOnce ==
    lastCall.op = "generate_embeddings_for_chunks" =>
        ConsecutiveBatches /\ EachBatchOnce

\* C25 (amended): with the API key set and the SDK configured, the chunks
\* are submitted as consecutive batches of 100, in order, each batch exactly
\* once, whatever the replies; without the key, or when configuring the SDK
\* fails, no batch is submitted.
C25_SubmittedOnceWhenConfigured ==
    lastCall.op = "generate_embeddings_for_chunks" =>
        IF lastCall.key /\ lastCall.configure = "ok"
        THEN ConsecutiveBatches /\ EachBatchOnce
        ELSE lastCall.submitted = <<>>

\* 201 chunks, the first call raising, the second coming back a vector
\* short: three batches submitted, the last one of a single chunk
C25_Witness ==
    /\ lastCall.op = "generate_embeddings_for_chunks"
    /\ lastCall.key /\ lastCall.configure = "ok"
    /\ Len(lastCall.text_chunks) = 2 * batch_size + 1
    /\ lastCall.replies = <<"raise", "short", "ok">>
    /\ lastCall.submitted = <<1, 2, 3>>
    /\ Len(Batch(3)) = 1

\* a list of chunks and no API key: nothing is submitted
C25_NoKeySeen ==
    /\ lastCall.op = "generate_embeddings_for_chunks"
    /\ ~lastCall.key
    /\ Len(lastCall.text_chunks) = batch_size
    /\ lastCall.submitted = <<>>

\* row is the storage row of the embedding record item
RowOf(row, item) ==
    /\ row.source_table = item.source_table
    /\ row.source_record_id = item.source_record_id
    /\ row.text_chunk = item.text_chunk
    /\ row.model_used = item.model_used
    /\ row.embedding = Str(item.embedding)

\* C14: store_embeddings_in_supabase posts only records whose embedding is
\* not None: every row of a posted payload is the row of an input record
\* with a vector, every input record with a vector has its row in the
\* payload (which is posted once the connection stands), and the input list
\* is the same after the call, failed records included.
C14_OnlyVectorsForwarded ==
    lastCall.op = "store_embeddings_in_supabase" =>
        /\ \A p \in DOMAIN lastCall.posted :
              /\ \A j \in DOMAIN lastCall.posted[p] :
                    /\ lastCall.posted[p][j].embedding # Str(PyNone)
                    /\ \E k \in DOMAIN lastCall.embeddings_data :
                          /\ lastCall.embeddings_data[k].embedding # PyNone
                          /\ RowOf(lastCall.posted[p][j],
                                   lastCall.embeddings_data[k])
              /\ \A k \in DOMAIN lastCall.embeddings_data :
                    lastCall.embeddings_data[k].embedding # PyNone =>
                        \E j \in DOMAIN lastCall.posted[p] :
                            RowOf(lastCall.posted[p][j],
                                  lastCall.embeddings_data[k])
        /\ (/\ lastCall.connect = "ok"
            /\ \E k \in DOMAIN lastCall.embeddings_data :
                  lastCall.embeddings_data[k].embedding # PyNone)
              => Len(lastCall.posted) = 1
        /\ lastCall.arg_after = lastCall.embeddings_data

\* a list with failed and embedded records, of which only the embedded ones
\* are posted
C14_Witness ==
    /\ lastCall.op = "store_embeddings_in_supabase"
    /\ lastCall.connect = "ok"
    /\ Len(lastCall.embeddings_data) = 150
    /\ Len(lastCall.posted) = 1
    /\ Len(lastCall.posted[1]) = 50
    /\ lastCall.embeddings_data[1].embedding = PyNone
    /\ lastCall.arg_after[1].embedding = PyNone
    /\ lastCall.posted[1][1].text_chunk = TextChunk(101)

-----------------------------------------------------------------------------
(* Properties of the pipelines *)

\* C15: the report of run_all_pipelines has exactly one entry per configured
\* dataset type, each entry is a success or carries an error field, and the
\* pipeline of every type has run, whichever way the pipelines of the other
\* types ended (nothing imported, no features, a training error, an
\* exception).
C15_OneEntryPerType ==
    lastCall.op = "run_all_pipelines" =>
        /\ lastCall.outcome = "return"
        /\ DOMAIN lastCall.ret = DOMAIN datasets
        /\ DOMAIN lastCall.steps = DOMAIN datasets
        /\ \A t \in DOMAIN lastCall.ret :
              /\ lastCall.ret[t].dataset_type = t
              /\ lastCall.ret[t].success \/ "error" \in DOMAIN lastCall.ret[t]
              /\ lastCall.envs[t].imported = "none" => ~lastCall.ret[t].success

\* the training run of one type raised; the other type is trained, saved
\* and reported as a success
C15_Witness ==
    /\ lastCall.op = "run_all_pipelines"
    /\ datasets = RegistryDatasets
    /\ lastCall.envs["network"].fit = "raise"
    /\ "error" \in DOMAIN lastCall.ret["network"]
    /\ lastCall.ret["location"].success
    /\ lastCall.steps["location"].save_ret = "saved"
    /\ "location" \in DOMAIN models

\* the same with the types exchanged, and nothing imported for the failing one
C15_WitnessExchanged ==
    /\ lastCall.op = "run_all_pipelines"
    /\ datasets = RegistryDatasets
    /\ lastCall.envs["location"].imported = "none"
    /\ "error" \in DOMAIN lastCall.ret["location"]
    /\ lastCall.ret["network"].success
    /\ "network" \in DOMAIN models

\* C16: when save_model does not write all three artifacts during
\* run_pipeline, the entry returned carries an error field; the entry is a
\* success only if the bundle was registered and its three artifacts were
\* written.
C16_SaveFailureReported ==
    lastCall.op = "run_pipeline" =>
        /\ lastCall.save_ret = "failed" => "error" \in DOMAIN lastCall.ret
        /\ lastCall.ret.success =>
              /\ lastCall.trained
              /\ lastCall.save_ret = "saved"
              /\ \A p \in ArtifactPaths(lastCall.t) :
                    p \in DOMAIN lastCall.files_after

-----------------------------------------------------------------------------
(* Properties of save_model and train_model *)

\* C17: save_model(t) returns False and leaves ./models as it was when no
\* bundle is registered for t; it returns True only if the model artifact,
\* the scaler artifact and the metadata document of the registered bundle
\* have all three been written.
C17_SaveAllOrFalse ==
    [][ lastCall'.op = "save_model" =>
          /\ lastCall'.t \notin DOMAIN models =>
                /\ lastCall'.ret = FALSE
                /\ files' = files
          /\ lastCall'.ret = TRUE =>
                /\ lastCall'.t \in DOMAIN models
                /\ ArtifactPaths(lastCall'.t) \subseteq DOMAIN files'
                /\ files'[ModelPath(lastCall'.t)]
                      = JoblibDump(models[lastCall'.t].model)
                /\ files'[ScalerPath(lastCall'.t)]
                      = JoblibDump(models[lastCall'.t].info.scaler)
                /\ files'[MetadataPath(lastCall'.t)].fmt = "json"
                /\ MetadataLoad(files'[MetadataPath(lastCall'.t)]).features
                      = models[lastCall'.t].features ]_vars

\* save_model on a type without bundle returned False and wrote nothing
C17_Witness ==
    /\ lastCall.op = "save_model"
    /\ lastCall.t \notin DOMAIN models
    /\ lastCall.ret = FALSE
    /\ ArtifactPaths(lastCall.t) \cap DOMAIN files = {}

\* save_model returned True with the three artifacts in place
C17_SavedSeen ==
    /\ lastCall.op = "save_model"
    /\ lastCall.ret = TRUE
    /\ ArtifactPaths(lastCall.t) \subseteq DOMAIN files

\* save_model returned False after a write failed
C17_FailedWriteSeen ==
    /\ lastCall.op = "save_model"
    /\ lastCall.t \in DOMAIN models
    /\ lastCall.ret = FALSE

\* C19: train_model returns an error result when the expanded feature list
\* is empty and when the target column is absent from the table; in both
\* cases the registry is left as it was: no bundle is registered and a
\* bundle registered before for the type is unchanged.
C19_ErrorLeavesRegistry ==
    [][ lastCall'.op = "train_model" =>
        \A t \in {lastCall'.t} : \A k \in TrainingFor(t, datasets[t]) :
          \A fit \in {"ok", "raise"} :
            (/\ TrainModel(t, k, fit)
             /\ \/ TrainingSets[k].new_features = <<>>
                \/ datasets[t].target \notin Columns(TrainingSets[k].df))
            => /\ lastCall'.outcome = "return"
               /\ "error" \in DOMAIN lastCall'.ret
               /\ models' = models ]_vars

\* an error result for an empty feature list, a bundle registered before for
\* the type still in the registry
C19_Witness ==
    /\ lastCall.op = "train_model"
    /\ lastCall.outcome = "return"
    /\ "error" \in DOMAIN lastCall.ret
    /\ lastCall.ret.error = PyStr(<<"No features available for training.">>)
    /\ lastCall.t \in DOMAIN models
    /\ models[lastCall.t] \in trained

\* an error result for an absent target column
C19_TargetAbsentSeen ==
    /\ lastCall.op = "train_model"
    /\ "error" \in DOMAIN lastCall.ret
    /\ lastCall.ret.error # PyStr(<<"No features available for training.">>)
    /\ lastCall.t \in DOMAIN models

\* C20: a train_model(t) that succeeds registers under t a bundle whose
\* model, scaler, feature list and metadata all come from this training run,
\* whatever was registered for t before, and leaves the entries of the
\* other types as they were; the registry has one entry per type.
C20_ReplacedWholesale ==
    [][ lastCall'.op = "train_model" =>
        \A t \in {lastCall'.t} : \A k \in TrainingFor(t, datasets[t]) :
          (/\ TrainModel(t, k, "ok")
           /\ "error" \notin DOMAIN lastCall'.ret)
          => /\ DOMAIN models' = DOMAIN models \cup {t}
             /\ \A u \in DOMAIN models \ {t} : models'[u] = models[u]
             /\ models'[t].model.fit_on = k
             /\ models'[t].info.scaler.fit_on = k
             /\ models'[t].features = TrainingSets[k].new_features
             /\ models'[t].info.metrics = ModelInfo(datasets[t].target, k).metrics
             /\ DOMAIN models'[t].info.feature_importance
                   = Range(TrainingSets[k].new_features)
             /\ lastCall'.ret = models'[t].info ]_vars

\* a second training run of a type replaced the bundle of the first
C20_Witness ==
    /\ lastCall.op = "train_model"
    /\ lastCall.outcome = "return"
    /\ "error" \notin DOMAIN lastCall.ret
    /\ lastCall.t \in DOMAIN models
    /\ \E b \in trained :
          /\ b # models[lastCall.t]
          /\ b.model.ty = models[lastCall.t].model.ty
          /\ b.features # models[lastCall.t].features

\* a training run of one type with the bundle of another type registered
C20_OtherTypeKept ==
    /\ lastCall.op = "train_model"
    /\ "error" \notin DOMAIN lastCall.ret
    /\ DOMAIN models = {"network", "location"}

-----------------------------------------------------------------------------
(* Properties of the reconstruction defaults *)

\* the stored feature is reconstructed as a one-hot column of the request
OneHotRead(feature, input_data) ==
    /\ HasUS(feature)
    /\ SplitFirst(feature) # <<>>
    /\ SplitFirst(feature) \in DOMAIN input_data

\* the stored feature is neither reconstructed as a one-hot column nor a key
\* of the request
Omitted(feature, input_data) ==
    ~OneHotRead(feature, input_data) /\ feature \notin DOMAIN input_data

\* every value the request supplies under a stored feature name is a number
SuppliedValuesNumeric(features, input_data) ==
    \A i \in DOMAIN features :
        (~OneHotRead(features[i], input_data) /\ features[i] \in DOMAIN input_data)
            => /\ IsNumber(input_data[features[i]])
               /\ ~IsNaN(input_data[features[i]])

\* C18: in the row predict reconstructs, every stored feature that is
\* neither reconstructed as a one-hot column nor a key of the request is 0,
\* so that a request that omits features (and supplies numbers for the
\* others) gets a row as long as the stored feature list, in its order, and
\* a prediction instead of an error.
C18_OmittedFeaturesAreZero ==
    (lastCall.op = "predict" /\ lastCall.tried) =>
        /\ (/\ \E i \in DOMAIN models[lastCall.t].features :
                  Omitted(models[lastCall.t].features[i], lastCall.input)
            /\ SuppliedValuesNumeric(models[lastCall.t].features, lastCall.input))
              => "prediction" \in DOMAIN lastCall.ret
        /\ "prediction" \in DOMAIN lastCall.ret =>
              /\ Len(lastCall.ret.prediction.row)
                    = Len(models[lastCall.t].features)
              /\ \A i \in DOMAIN models[lastCall.t].features :
                    Omitted(models[lastCall.t].features[i], lastCall.input)
                       => lastCall.ret.prediction.row[i] = PyInt(0)

-----------------------------------------------------------------------------
(* Properties of the argument of the enhancement *)

\* C28: enhance_location_data leaves its argument as it was: after the call
\* the entity passed in, its connectivity and social sections included,
\* equals its value before the call.
C28_ArgumentUnmodified ==
    lastCall.op = "enhance_location_data" =>
        lastCall.arg_after = lastCall.arg

-----------------------------------------------------------------------------
(* Properties of the model family *)

\* the last call was a train_model call that registered a bundle
Registered ==
    /\ lastCall.op = "train_model"
    /\ lastCall.outcome = "return"
    /\ "error" \notin DOMAIN lastCall.ret

\* C27: a train_model call that registers a bundle for a type whose target
\* is avg_sentiment or reliability_score registers a gradient-boosted
\* regressor with task kind regression and the metrics mse and r2; for any
\* other target it registers a random-forest classifier with task kind
\* classification and the metrics accuracy and f1.  The returned model_info
\* says the same.
C27_FamilyFromTargetName ==
    Registered =>
        LET target == datasets[lastCall.t].target
            bundle == models[lastCall.t]
        IN  IF target \in {avg_sentiment, reliability_score}
            THEN /\ bundle.model.ty = "GradientBoostingRegressor"
                 /\ bundle.info.type = PyStr(<<"regression">>)
                 /\ DOMAIN bundle.info.metrics = {"mse", "r2"}
                 /\ lastCall.ret.type = PyStr(<<"regression">>)
                 /\ DOMAIN lastCall.ret.metrics = {"mse", "r2"}
            ELSE /\ bundle.model.ty = "RandomForestClassifier"
                 /\ bundle.info.type = PyStr(<<"classification">>)
                 /\ DOMAIN bundle.info.metrics = {"accuracy", "f1"}
                 /\ lastCall.ret.type = PyStr(<<"classification">>)
                 /\ DOMAIN lastCall.ret.metrics = {"accuracy", "f1"}

\* a bundle registered for the target avg_sentiment
C27_Witness ==
    /\ Registered
    /\ datasets[lastCall.t].target = avg_sentiment
    /\ models[lastCall.t].info.type = PyStr(<<"regression">>)

\* a bundle registered for a text target
C27_ClassifierSeen ==
    /\ Registered
    /\ datasets[lastCall.t].target = category
    /\ models[lastCall.t].model.ty = "RandomForestClassifier"

-----------------------------------------------------------------------------
(* Properties of the preprocessing *)

\* the values observed in column f of table df; a column without any value
\* counts as holding the fill-in text
Observed(df, f) ==
    IF Present(df, f) = {} THEN {unknown}
    ELSE {df.rows[i][f].s : i \in Present(df, f)}

\* the columns that stand for raw feature f of table df: the feature itself
\* when it is numeric, one column f_<value> per observed value when it is
\* text, none when the table has no such column
OwnColumns(df, f) ==
    IF f \notin Columns(df) THEN {}
    ELSE IF IsNumericDtype(df, f) THEN {f}
    ELSE {f \o <<US>> \o v : v \in Observed(df, f)}

\* C21: the expanded feature list returned by preprocess_data holds exactly
\* the columns that stand for the configured features (a numeric feature
\* under its own name, a text feature as one column per observed value), in
\* the order of the configured features, and no column name twice.
C21_ExpandedFeatureList ==
    lastCall.op = "preprocess_data" =>
        LET df       == lastCall.arg
            features == datasets[lastCall.t].features
            nf       == lastCall.ret.new_features
        IN  /\ \A i, j \in DOMAIN nf : i # j => nf[i] # nf[j]
            /\ Range(nf) = UNION {OwnColumns(df, f) : f \in Range(features)}
            /\ \A i, j \in DOMAIN nf : i < j =>
                  \E k, l \in DOMAIN features :
                     /\ k <= l
                     /\ nf[i] \in OwnColumns(df, features[k])
                     /\ nf[j] \in OwnColumns(df, features[l])

\* C22: the table returned by preprocess_data has exactly the target column
\* and the columns of the returned feature list, and as many rows as the
\* table it was given.
C22_TargetAndFeaturesOnly ==
    lastCall.op = "preprocess_data" =>
        /\ Columns(lastCall.ret.df)
              = {datasets[lastCall.t].target} \cup Range(lastCall.ret.new_features)
        /\ Len(lastCall.ret.df.rows) = Len(lastCall.arg.rows)

\* the value a missing cell of column col of table df is to get: the mean
\* of a numeric column, the most frequent text of a text column (checked as
\* a text that no other text of the column outnumbers), "unknown" for a
\* text column without any value
IsFill(df, col, v) ==
    LET I == Present(df, col)
    IN  IF IsNumericDtype(df, col)
        THEN /\ IsNumber(v) /\ ~IsNaN(v)
             /\ v.num * Cardinality(I) = v.den * SumCells(df, col, I)
        ELSE /\ IsStr(v)
             /\ IF I = {} THEN v.s = unknown
                ELSE /\ \E i \in I : df.rows[i][col].s = v.s
                     /\ \A w \in Observed(df, col) :
                           Cardinality({i \in I : df.rows[i][col].s = w})
                             <= Cardinality({i \in I : df.rows[i][col].s = v.s})

\* C23: after preprocess_data no cell of a configured feature column or of
\* the target column is missing: a column kept in the table holds its value
\* or, where the value was missing, the fill-in value of the column; a text
\* feature that was expanded has in every row the indicator of its value or
\* of the fill-in value set.
C23_NoMissingValue ==
    lastCall.op = "preprocess_data" =>
        LET df  == lastCall.arg
            out == lastCall.ret.df
            cfg == datasets[lastCall.t]
        IN  \A col \in (Range(cfg.features) \cup {cfg.target}) \cap Columns(df) :
              \A i \in 1..Len(df.rows) :
                 IF col \in Columns(out)
                 THEN /\ ~IsMissing(out.rows[i][col])
                      /\ IF IsMissing(df.rows[i][col])
                         THEN IsFill(df, col, out.rows[i][col])
                         ELSE out.rows[i][col] = df.rows[i][col]
                 ELSE \E v \in Observed(df, col) :
                        /\ (~IsMissing(df.rows[i][col]) => v = df.rows[i][col].s)
                        /\ IsFill(df, col, PyStr(v))
                        /\ col \o <<US>> \o v \in Columns(out)
                        /\ out.rows[i][col \o <<US>> \o v] = PyInt(1)

-----------------------------------------------------------------------------
(* Properties of the location service *)

\* the id of element i of the last call's list
IdOf(i) == DictGet(lastCall.locations[i], "id", PyNone)

\* element i of the last call's list is a location with a non-empty id
HasId(i) == IsLocation(lastCall.locations[i]) /\ Truthy(IdOf(i))

\* the locations of the last call that carry an id carry different ids
DistinctIds ==
    \A i, j \in DOMAIN lastCall.locations :
       (HasId(i) /\ HasId(j) /\ IdOf(i) = IdOf(j)) => i = j

\* C29: after an enhance_locations call on locations with different ids, for
\* every input location with a non-empty id the element returned at its
\* position is the entity the cache holds under that id; when the location
\* failed and the original was returned, the cache holds nothing under
\* its id.
C29_ReturnedIsCached ==
    (lastCall.op = "enhance_locations" /\ lastCall.outcome = "return"
     /\ DistinctIds) =>
        \A i \in DOMAIN lastCall.locations :
           HasId(i) =>
              /\ i \in DOMAIN lastCall.ret
              /\ IF IdOf(i) \in DOMAIN location_cache
                 THEN lastCall.ret[i] = location_cache[IdOf(i)]
                 ELSE lastCall.ret[i] = lastCall.locations[i]

\* C30: enhance_locations returns one element per input location, in input
\* order: for a location whose id was in the cache the cached entity
\* (without a new enhancement), for a location whose enhancement failed the
\* location itself, otherwise the enhanced location; no element of the list
\* makes the call raise.
C30_OneElementPerLocation ==
    lastCall.op = "enhance_locations" =>
        /\ lastCall.outcome = "return"
        /\ Len(lastCall.ret) = Len(lastCall.locations)
        /\ \A i \in DOMAIN lastCall.locations :
              /\ lastCall.kinds[i] \in {"cached", "enhanced", "failed"}
              /\ (IsLocation(lastCall.locations[i])
                  /\ IdOf(i) \in DOMAIN lastCall.cache_before)
                    => /\ lastCall.kinds[i] = "cached"
                       /\ lastCall.ret[i] = lastCall.cache_before[IdOf(i)]
              /\ lastCall.kinds[i] = "failed"
                    => lastCall.ret[i] = lastCall.locations[i]
              /\ lastCall.kinds[i] = "enhanced"
                    => /\ "recommendations" \in DOMAIN lastCall.ret[i]
                       /\ lastCall.ret[i]["enhanced_by_deepmind"] = PyBool(TRUE)
                       /\ \A k \in DOMAIN lastCall.locations[i] :
                             k \in DOMAIN lastCall.ret[i]

=============================================================================
